---- MODULE Spec2Model ----
(***************************************************************************)
(* State-machine model of the streaming-web front end:                     *)
(*   - the per-show lookup batches fetchOmdbDetails / fetchHeroClips,      *)
(*   - the "My List" favourites and their localStorage persistence,        *)
(*   - the catalog query and the hero / content-row rendering,             *)
(*   - the chat sidebar's handleSend,                                      *)
(*   - the hero carousel and its media,                                    *)
(*   - fetchShows and the OMDb parsers,                                    *)
(*   - the rating, top-rated and trending rows and the My List tray,       *)
(*   - the player overlay.                                                 *)
(* Every component has its own specification over the same variables; the  *)
(* variables of the other components stay at their initial value.          *)
(***************************************************************************)
EXTENDS Integers, Sequences, FiniteSets, TLC

VARIABLES
    \* ---- lookup batch (lib/omdb.ts, lib/giphy.ts) ----
    api,          \* which batch function was called: "none", "omdb", "giphy"
    batchShows,   \* the `shows` argument: a sequence of show ids
    apiKey,       \* the `apiKey` argument
    requests,     \* per list position: "none", "pending" or the outcome of the HTTP request
    sent,         \* per list position: the number of HTTP requests issued (calls of fetch)
    results,      \* the `results` record under construction, keyed by show id
    batchStatus,  \* the promise returned by the call: "idle", "pending", "resolved", "rejected"
    \* ---- My List (App: myListIds, localStorage "dgs-my-list") ----
    storage,      \* window.localStorage item "dgs-my-list": absent, or its text as JSON tokens
    phase,        \* per app instance (tab): "closed", "rendered" (first render done), "mounted"
    myListIds,    \* per app instance: the myListIds state
    pending,      \* per app instance: the [myListIds] effect is scheduled and has not run yet
    lastWriter,   \* the app instance that wrote the storage item last (0: none)
    \* ---- catalog query (App: useQuery(["shows"])) ----
    qStatus,      \* status of the query: "pending", "success", "error"
    qFetching,    \* the queryFn (fetchShows) is running
    qError,       \* `error` of the query is set
    qHasData,     \* the query has received data at least once
    shows,        \* `data` of the query (default []): the catalog
    \* ---- chat sidebar (ChatSidebar) ----
    openAiKey,    \* import.meta.env.VITE_OPENAI_API_KEY
    input,        \* the textarea's value
    messages,     \* the transcript
    isSending,
    inFlight,     \* number of handleSend calls awaiting the AI service
    lastOutcome,  \* what the AI service did to the request answered last ("none" after a send)
    \* ---- hero carousel (HeroCarousel) ----
    carouselShows, \* the `shows` prop: ids of the hero shows; <<>> when not rendered
    clips,        \* the `clips` prop restricted to the hero shows: URL of the hero clip or "none"
    current,
    isAnimating,
    rafQueue,     \* callbacks passed to requestAnimationFrame that have not run yet
    loadPending,  \* the mounted clip element has not fired its load / canplay event yet
    \* ---- fetchShows (lib/graphql-client.ts) ----
    seeds,        \* NETFLIX_CATALOG
    omdbKey,      \* import.meta.env.VITE_OMDB_API_KEY
    fsCatalog,    \* the `catalog` constant of the running call
    fsStatus,     \* the promise returned by fetchShows: "idle", "pending", "resolved", "rejected"
    fsShows,      \* the value the promise resolved to
    \* ---- parseRuntime (lib/omdb.ts) ----
    rtValue,      \* the `value` argument: the Runtime text of an OMDb body
    rtParsed,     \* whether parseRuntime has returned, and what (NoNumber: undefined)
    \* ---- player overlay (App: playerState; PlayerOverlay) ----
    playerShow,   \* playerState.show: the id of the show, NoShow for null
    playerClip,   \* playerState.clip: a URL, "none" for null / undefined
    isPlaying,    \* state of PlayerOverlay: the indicator of the play / pause button
    isVisible,    \* state of PlayerOverlay
    videoPaused,  \* videoRef.current.paused (TRUE while no <video> is mounted)
    canPlay,      \* whether the browser can play the mounted clip (play() resolves)
    closeTimers,  \* pending setTimeout(onClose, 350) timers, oldest first
    launches      \* number of launchPlayer calls so far

batchVars == <<api, batchShows, apiKey, requests, sent, results, batchStatus>>

listVars == <<storage, phase, myListIds, pending, lastWriter>>

catalogVars == <<qStatus, qFetching, qError, qHasData, shows>>

chatVars == <<openAiKey, input, messages, isSending, inFlight, lastOutcome>>

heroVars == <<carouselShows, clips, current, isAnimating, rafQueue, loadPending>>

fetchVars == <<seeds, omdbKey, fsCatalog, fsStatus, fsShows>>

runtimeVars == <<rtValue, rtParsed>>

playerVars == <<playerShow, playerClip, isPlaying, isVisible, videoPaused, canPlay, closeTimers, launches>>

vars == <<batchVars, listVars, catalogVars, chatVars, heroVars, fetchVars, runtimeVars, playerVars>>

notBatch == <<listVars, catalogVars, chatVars, heroVars, fetchVars, runtimeVars, playerVars>>

notList == <<batchVars, catalogVars, chatVars, heroVars, fetchVars, runtimeVars, playerVars>>

notCatalog == <<batchVars, listVars, chatVars, heroVars, fetchVars, runtimeVars, playerVars>>

notChat == <<batchVars, listVars, catalogVars, heroVars, fetchVars, runtimeVars, playerVars>>

notHero == <<batchVars, listVars, catalogVars, chatVars, fetchVars, runtimeVars, playerVars>>

\* fetchShows drives a lookup batch
notFetch == <<listVars, catalogVars, chatVars, heroVars, runtimeVars, playerVars>>

notPlayer == <<batchVars, listVars, catalogVars, chatVars, heroVars, fetchVars, runtimeVars>>

(***************************************************************************)
(* Bounds                                                                  *)
(***************************************************************************)
MaxShows == 3

\* the longest array found in storage at startup
MaxStored == 2

\* the longest catalog returned by the query
MaxCatalog == 2

\* JavaScript numbers are counted in units of 1 / Unit, so that N(1) + 1 is
\* a number that is not an integer
Unit == 2

(***************************************************************************)
(* Helpers                                                                 *)
(***************************************************************************)
Range(s) == {s[i] : i \in DOMAIN s}

NoDup(s) == \A i, j \in DOMAIN s : s[i] = s[j] => i = j

\* the sequences over S of length at most n
SeqUpTo(S, n) == UNION {[1..k -> S] : k \in 0..n}

\* a string property that is undefined
Undefined == "undefined"

\* a number property that is undefined (the numbers of the model are >= 0)
NoNumber == -1

EmptyMap == <<>>

\* the record is replaced by one that holds the new entry only
Put_Replace(f, k, v) == [x \in {k} |-> v]

\* f with key k bound to v (plain object property assignment)
Put(f, k, v) == [x \in (DOMAIN f) \cup {k} |-> IF x = k THEN v ELSE f[x]]

(***************************************************************************)
(* Lookup batches                                                          *)
(***************************************************************************)
\* apiKey values: undefined / empty, whitespace only, a real key
ApiKeys == {"", " ", "key"}

\* String.prototype.trim on the keys above
Trim(k) == IF k = " " THEN "" ELSE k

\* what one HTTP request can do
\*   "reject"  fetch() rejects (network error)
\*   "notOk"   a response with response.ok false
\*   "badBody" response.json() rejects
\*   "False"   OMDb body with Response "False"  / Giphy body with no data
\*   "True"    OMDb body with Response "True"
\*   "one"     Giphy body whose first gif has a usable URL
\*   "two"     Giphy body whose first two gifs have a usable URL
OmdbOutcomes == {"reject", "notOk", "badBody", "False", "True"}
GiphyOutcomes == {"reject", "notOk", "badBody", "False", "one", "two", "second"}

\* fetchDetails: "throw", "null" or the details object
fetchDetails(outcome) ==
    CASE outcome = "reject" -> "throw"
      [] outcome = "notOk" -> "throw"
      [] outcome = "badBody" -> "throw"
      [] outcome = "True" -> "details"
      [] OTHER -> "null"

OmdbTask_NoCatch(outcome) ==
    LET details == fetchDetails(outcome)
    IN  [thrown |-> details = "throw", store |-> details = "details", value |-> details]

\* the async callback of shows.map in fetchOmdbDetails: try / catch around fetchDetails
OmdbTask(outcome) ==
    LET details == fetchDetails(outcome)
    IN  IF details = "throw"
        THEN [thrown |-> FALSE, store |-> FALSE, value |-> "null"]
        ELSE [thrown |-> FALSE, store |-> details # "null", value |-> details]

\* fetchClipPair: "throw" or the pair {primary, secondary}
fetchClipPair(outcome) ==
    CASE outcome = "reject" -> "throw"
      [] outcome = "badBody" -> "throw"
      [] outcome = "notOk" -> "none"
      [] outcome = "one" -> "primary"
      [] outcome = "two" -> "both"
      [] outcome = "second" -> "secondary"
      [] OTHER -> "none"

\* the async callback of shows.map in fetchHeroClips: no try / catch
GiphyTask(outcome) ==
    LET clip == fetchClipPair(outcome)
    IN  [thrown |-> clip = "throw", store |-> clip \in {"primary", "both", "secondary"}, value |-> clip]

Task(a, outcome) == IF a = "omdb" THEN OmdbTask(outcome) ELSE GiphyTask(outcome)

Outcomes(a) == IF a = "omdb" THEN OmdbOutcomes ELSE GiphyOutcomes

\* the lists of shows a batch is called with, by id: two shows can have the
\* same id (fetchShows); the ids are numbered in the order they first appear
ShowLists ==
    {list \in SeqUpTo(1..MaxShows, MaxShows) :
        \A i \in DOMAIN list : list[i] = 1 \/ \E j \in 1..(i - 1) : list[j] = list[i] - 1}

BatchInit ==
    /\ api = "none"
    /\ batchShows = <<>>
    /\ apiKey = ""
    /\ requests = <<>>
    /\ sent = <<>>
    /\ results = EmptyMap
    /\ batchStatus = "idle"

\* fetchOmdbDetails(shows, apiKey) / fetchHeroClips(shows, apiKey) up to the
\* first await: the early return, or one request per show
CallBatch(a, list, key) ==
    /\ api' = a
    /\ batchShows' = list
    /\ apiKey' = key
    /\ results' = EmptyMap
    /\ IF Trim(key) = "" \/ Len(list) = 0
       THEN /\ requests' = [i \in DOMAIN list |-> "none"]
            /\ sent' = [i \in DOMAIN list |-> 0]
            /\ batchStatus' = "resolved"
       ELSE /\ requests' = [i \in DOMAIN list |-> "pending"]
            /\ sent' = [i \in DOMAIN list |-> 1]
            /\ batchStatus' = "pending"

\* a call of one of the two batch functions by itself
Call(a, list, key) ==
    /\ batchStatus = "idle"
    /\ CallBatch(a, list, key)
    /\ UNCHANGED notBatch

\* the outcomes that are failures of the request
Failed(outcome) == outcome \in {"reject", "notOk", "badBody"}

CompleteWith_Retry(i, outcome, value) ==
    /\ i \in DOMAIN requests
    /\ requests[i] = "pending"
    /\ IF Failed(outcome) /\ sent[i] = 1
       THEN /\ sent' = [sent EXCEPT ![i] = 2]
            /\ UNCHANGED <<requests, results, batchStatus>>
       ELSE LET t == Task(api, outcome)
                reqs == [requests EXCEPT ![i] = outcome]
            IN  /\ requests' = reqs
                /\ sent' = sent
                /\ results' = IF t.store THEN Put(results, batchShows[i], value) ELSE results
                /\ batchStatus' =
                      IF batchStatus # "pending" THEN batchStatus
                      ELSE IF t.thrown THEN "rejected"
                      ELSE IF \A j \in DOMAIN reqs : reqs[j] # "pending" THEN "resolved"
                      ELSE "pending"
    /\ UNCHANGED <<api, batchShows, apiKey>>

\* the request of position i completes and its callback runs to the end,
\* storing `value` when it stores; Promise.all rejects with the first
\* rejection and fulfils once every callback has fulfilled
CompleteWith(i, outcome, value) ==
    /\ i \in DOMAIN requests
    /\ requests[i] = "pending"
    /\ LET t == Task(api, outcome)
           reqs == [requests EXCEPT ![i] = outcome]
       IN  /\ requests' = reqs
           /\ results' = IF t.store THEN Put(results, batchShows[i], value) ELSE results
           /\ batchStatus' =
                 IF batchStatus # "pending" THEN batchStatus
                 ELSE IF t.thrown THEN "rejected"
                 ELSE IF \A j \in DOMAIN reqs : reqs[j] # "pending" THEN "resolved"
                 ELSE "pending"
    /\ UNCHANGED <<api, batchShows, apiKey, sent>>

\* the same within a call of a batch function by itself: what is stored is
\* left abstract
Complete(i, outcome) ==
    /\ CompleteWith(i, outcome, Task(api, outcome).value)
    /\ UNCHANGED notBatch

BatchNext ==
    \/ \E a \in {"omdb", "giphy"}, list \in ShowLists, key \in ApiKeys : Call(a, list, key)
    \/ \E i \in 1..MaxShows : \E outcome \in Outcomes(api) : Complete(i, outcome)

(***************************************************************************)
(* My List: readStoredMyList, toggleMyList and the persistence effects     *)
(***************************************************************************)
\* the integer i as a JavaScript number
N(i) == i * Unit

\* a JavaScript number that is not an integer (between 1 and 2)
Frac == Unit + 1

IsInteger(x) == x % Unit = 0

\* the app instances (browser tabs) sharing one localStorage
Tabs == {1, 2}

\* the ids of the catalog shows, the arguments of toggleMyList
ShowIds == {N(i) : i \in 1..MaxShows}

\* JSON text is modelled as its sequence of tokens
Tok(t, n, s) == [t |-> t, n |-> n, s |-> s]

LBracket == Tok("[", 0, "")
RBracket == Tok("]", 0, "")
Comma == Tok(",", 0, "")
NumTok(x) == Tok("num", x, "")
StrTok(s) == Tok("str", 0, s)

\* the literals found as array elements or alone: finite numbers, a number
\* too large for a double (1e999), strings, null, true, an object {}
Literals ==
    {NumTok(N(1)), NumTok(N(2)), NumTok(Frac), Tok("huge", 0, ""),
     StrTok("2"), StrTok("x"), Tok("null", 0, ""), Tok("true", 0, ""), Tok("{}", 0, "")}

\* a token that is a complete JSON value
IsLiteral(tok) == tok.t \in {"num", "huge", "str", "null", "true", "{}"}

\* the elements of a number[] holding finite numbers, separated by commas
StringifyElems(list) ==
    [k \in 1..(2 * Len(list) - 1) |-> IF k % 2 = 1 THEN NumTok(list[(k + 1) \div 2]) ELSE Comma]

\* JSON.stringify(myListIds)
JSONstringify(list) ==
    IF Len(list) = 0 THEN <<LBracket, RBracket>>
    ELSE <<LBracket>> \o StringifyElems(list) \o <<RBracket>>

\* JSON.parse(raw): throws (ok FALSE), or yields an array of literals, or
\* a value that is not an array
JSONparse(raw) ==
    LET n == Len(raw)
        inner == SubSeq(raw, 2, n - 1)
        m == Len(inner)
        Throw == [ok |-> FALSE, isArray |-> FALSE, elems |-> <<>>]
    IN  IF n = 1 /\ IsLiteral(raw[1])
        THEN [ok |-> TRUE, isArray |-> FALSE, elems |-> <<>>]
        ELSE IF n >= 2 /\ raw[1] = LBracket /\ raw[n] = RBracket
        THEN IF m = 0 THEN [ok |-> TRUE, isArray |-> TRUE, elems |-> <<>>]
             ELSE IF /\ m % 2 = 1
                     /\ \A k \in 1..m : IF k % 2 = 1 THEN IsLiteral(inner[k]) ELSE inner[k] = Comma
             THEN [ok |-> TRUE, isArray |-> TRUE,
                   elems |-> [k \in 1..((m + 1) \div 2) |-> inner[2 * k - 1]]]
             ELSE Throw
        ELSE Throw

\* a JavaScript number: finite with value v, or NaN / Infinity
Finite(v) == [finite |-> TRUE, v |-> v]
NotFinite == [finite |-> FALSE, v |-> 0]

\* typeof value === "number" ? value : Number(value), on a parsed literal
ToNumber(lit) ==
    CASE lit.t = "num" -> Finite(lit.n)
      [] lit.t = "huge" -> NotFinite
      [] lit.t = "str" -> IF lit.s = "2" THEN Finite(N(2)) ELSE NotFinite
      [] lit.t = "null" -> Finite(0)
      [] lit.t = "true" -> Finite(N(1))
      [] OTHER -> NotFinite

\* Array.prototype.filter
RECURSIVE SelectSeqBy(_, _)
SelectSeqBy(s, keep) ==
    IF s = <<>> THEN <<>>
    ELSE (IF s[1] \in keep THEN <<s[1]>> ELSE <<>>) \o SelectSeqBy(Tail(s), keep)

\* window.localStorage.getItem: null (absent) or the text
NoItem == [present |-> FALSE, text |-> <<>>]
Item(text) == [present |-> TRUE, text |-> text]

\* the result in reverse order
readStoredMyList_Reversed(raw) ==
    IF ~raw.present \/ raw.text = <<>> THEN <<>>
    ELSE LET parsed == JSONparse(raw.text)
             nums == [k \in DOMAIN parsed.elems |-> ToNumber(parsed.elems[k])]
             kept == SelectSeqBy(nums, {x \in Range(nums) : x.finite})
         IN  IF ~parsed.ok \/ ~parsed.isArray THEN <<>>
             ELSE [k \in DOMAIN kept |-> kept[Len(kept) + 1 - k].v]

\* readStoredMyList on the stored item
readStoredMyList(raw) ==
    IF ~raw.present \/ raw.text = <<>> THEN <<>>
    ELSE LET parsed == JSONparse(raw.text)
             nums == [k \in DOMAIN parsed.elems |-> ToNumber(parsed.elems[k])]
             kept == SelectSeqBy(nums, {x \in Range(nums) : x.finite})
         IN  IF ~parsed.ok \/ ~parsed.isArray THEN <<>>
             ELSE [k \in DOMAIN kept |-> kept[k].v]

\* the updater puts a new id in front
Toggled_Prepend(prev, showId) ==
    IF showId \in Range(prev)
    THEN SelectSeqBy(prev, Range(prev) \ {showId})
    ELSE <<showId>> \o prev

\* the updater appends without looking
Toggled_AlwaysAppend(prev, showId) == Append(prev, showId)

\* the updater of toggleMyList
Toggled(prev, showId) ==
    IF showId \in Range(prev)
    THEN SelectSeqBy(prev, Range(prev) \ {showId})
    ELSE Append(prev, showId)

\* what can be found under "dgs-my-list" at startup: nothing, the empty
\* string, text that is not JSON, JSON that is not an array, arrays
StoredArrays ==
    {<<LBracket, RBracket>>}
    \cup {<<LBracket, a, RBracket>> : a \in Literals}
    \cup {<<LBracket, a, Comma, b, RBracket>> : a, b \in Literals}

InitialItems ==
    {NoItem, Item(<<>>), Item(<<LBracket>>), Item(<<Tok("junk", 0, "")>>),
     Item(<<NumTok(N(1))>>), Item(<<Tok("{}", 0, "")>>)}
    \cup {Item(a) : a \in StoredArrays}

ListIdle ==
    /\ storage = NoItem
    /\ phase = [t \in Tabs |-> "closed"]
    /\ myListIds = [t \in Tabs |-> <<>>]
    /\ pending = [t \in Tabs |-> FALSE]
    /\ lastWriter = 0

ListInit ==
    /\ storage \in InitialItems
    /\ phase = [t \in Tabs |-> "closed"]
    /\ myListIds = [t \in Tabs |-> <<>>]
    /\ pending = [t \in Tabs |-> FALSE]
    /\ lastWriter = 0

\* the app is loaded (or reloaded) in tab t: the first render, with the lazy
\* initial state of useState
Open(t) ==
    /\ phase[t] = "closed"
    /\ phase' = [phase EXCEPT ![t] = "rendered"]
    /\ myListIds' = [myListIds EXCEPT ![t] = readStoredMyList(storage)]
    /\ UNCHANGED <<storage, pending, lastWriter>>
    /\ UNCHANGED notList

\* the effects of the first commit, in order: setMyListIds(readStoredMyList()),
\* then setItem with the myListIds of the first render; the state update
\* schedules a render and with it the [myListIds] effect
MountEffects(t) ==
    /\ phase[t] = "rendered"
    /\ phase' = [phase EXCEPT ![t] = "mounted"]
    /\ myListIds' = [myListIds EXCEPT ![t] = readStoredMyList(storage)]
    /\ storage' = Item(JSONstringify(myListIds[t]))
    /\ pending' = [pending EXCEPT ![t] = TRUE]
    /\ lastWriter' = t
    /\ UNCHANGED notList

Persist_Merge(t) ==
    /\ phase[t] = "mounted"
    /\ pending[t]
    /\ LET stored == readStoredMyList(storage)
           own == SelectSeqBy(myListIds[t], Range(myListIds[t]) \ Range(stored))
       IN  storage' = Item(JSONstringify(stored \o own))
    /\ pending' = [pending EXCEPT ![t] = FALSE]
    /\ lastWriter' = t
    /\ UNCHANGED <<phase, myListIds>>
    /\ UNCHANGED notList

Persist_SkipEmpty(t) ==
    /\ phase[t] = "mounted"
    /\ pending[t]
    /\ storage' = IF myListIds[t] = <<>> THEN storage ELSE Item(JSONstringify(myListIds[t]))
    /\ pending' = [pending EXCEPT ![t] = FALSE]
    /\ lastWriter' = t
    /\ UNCHANGED <<phase, myListIds>>
    /\ UNCHANGED notList

\* the [myListIds] effect: localStorage.setItem(key, JSON.stringify(myListIds))
Persist(t) ==
    /\ phase[t] = "mounted"
    /\ pending[t]
    /\ storage' = Item(JSONstringify(myListIds[t]))
    /\ pending' = [pending EXCEPT ![t] = FALSE]
    /\ lastWriter' = t
    /\ UNCHANGED <<phase, myListIds>>
    /\ UNCHANGED notList

\* toggleMyList(showId); pending effects are flushed before the next update
toggleMyList(t, showId) ==
    /\ phase[t] = "mounted"
    /\ ~pending[t]
    /\ myListIds' = [myListIds EXCEPT ![t] = Toggled(myListIds[t], showId)]
    /\ pending' = [pending EXCEPT ![t] = TRUE]
    /\ UNCHANGED <<storage, phase, lastWriter>>
    /\ UNCHANGED notList

\* isInMyList(showId): myListIds.includes(showId), with the current myListIds
isInMyList(t, showId) == \E k \in DOMAIN myListIds[t] : myListIds[t][k] = showId

\* the tab is closed or the page left (a reload is Close followed by Open)
Close(t) ==
    /\ phase[t] = "mounted"
    /\ ~pending[t]
    /\ phase' = [phase EXCEPT ![t] = "closed"]
    /\ myListIds' = [myListIds EXCEPT ![t] = <<>>]
    /\ UNCHANGED <<storage, pending, lastWriter>>
    /\ UNCHANGED notList

\* one app instance
MyListNext ==
    \/ Open(1)
    \/ MountEffects(1)
    \/ Persist(1)
    \/ \E showId \in ShowIds : toggleMyList(1, showId)
    \/ Close(1)

\* two app instances sharing the storage
TabsNext ==
    \/ \E t \in Tabs : Open(t)
    \/ \E t \in Tabs : MountEffects(t)
    \/ \E t \in Tabs : Persist(t)
    \/ \E t \in Tabs, showId \in ShowIds : toggleMyList(t, showId)
    \/ \E t \in Tabs : Close(t)

(***************************************************************************)
(* Catalog query, hero section and content rows                            *)
(***************************************************************************)
\* heroShows keeps at most this many shows
HeroLimit == 5

\* heroPriority ?? Number.MAX_SAFE_INTEGER; 0 stands for a missing heroPriority
NoPriority == 0

\* Number.MAX_SAFE_INTEGER (2^53 - 1), cut to the largest integer TLC
\* handles: above every heroPriority
MaxSafeInteger == 2147483647

PriorityKey_MissingFirst(show) == show.heroPriority

PriorityKey(show) == IF show.heroPriority = NoPriority THEN MaxSafeInteger ELSE show.heroPriority

\* a catalog show: its id, whether "spotlight" is among its collections, its heroPriority
CatalogShows(id) == [id : {id}, spotlight : BOOLEAN, heroPriority : {NoPriority, 1, 2}]

\* the catalogs fetchShows can return: ids are the positions
Catalogs == UNION {{c \in [1..n -> UNION {CatalogShows(i) : i \in 1..n}] : \A i \in 1..n : c[i].id = i} : n \in 0..MaxCatalog}

\* Array.prototype.sort with the comparator a.key - b.key (stable)
RECURSIVE SortByPriority(_)
SortByPriority(s) ==
    IF s = <<>> THEN <<>>
    ELSE LET rest == SortByPriority(SubSeq(s, 1, Len(s) - 1))
             x == s[Len(s)]
             k == Cardinality({i \in DOMAIN rest : PriorityKey(rest[i]) <= PriorityKey(x)})
         IN  SubSeq(rest, 1, k) \o <<x>> \o SubSeq(rest, k + 1, Len(rest))

\* Array.prototype.filter on records
RECURSIVE FilterSpotlight(_)
FilterSpotlight(s) ==
    IF s = <<>> THEN <<>>
    ELSE (IF s[1].spotlight THEN <<s[1]>> ELSE <<>>) \o FilterSpotlight(Tail(s))

\* Array.prototype.slice(0, n)
Slice0(s, n) == SubSeq(s, 1, IF Len(s) < n THEN Len(s) ELSE n)

\* the heroShows memo
heroShows ==
    LET spotlight == SortByPriority(FilterSpotlight(shows))
        picks == IF Len(spotlight) > 0 THEN spotlight ELSE shows
    IN  Slice0(picks, HeroLimit)

\* isLoading of the query: no data yet and the first fetch is running
isLoading == qStatus = "pending" /\ qFetching

heroSection_ErrorLast ==
    IF isLoading THEN "HeroSkeleton"
    ELSE IF Len(heroShows) > 0 THEN "HeroCarousel"
    ELSE IF qError THEN "ErrorState"
    ELSE "EmptyState"

\* the heroSection expression of App
heroSection ==
    IF isLoading THEN "HeroSkeleton"
    ELSE IF qError THEN "ErrorState"
    ELSE IF Len(heroShows) > 0 THEN "HeroCarousel"
    ELSE "EmptyState"

\* the children of <main> below the banners
contentRows ==
    IF isLoading THEN "RowSkeleton"
    ELSE IF qError THEN "none"
    ELSE "rows"

CatalogIdle ==
    /\ qStatus = "pending"
    /\ qFetching = FALSE
    /\ qError = FALSE
    /\ qHasData = FALSE
    /\ shows = <<>>

\* on mount the query starts fetching
CatalogInit ==
    /\ qStatus = "pending"
    /\ qFetching = TRUE
    /\ qError = FALSE
    /\ qHasData = FALSE
    /\ shows = <<>>

\* the queryFn resolves with a catalog
FetchSuccess(catalog) ==
    /\ qFetching
    /\ qStatus' = "success"
    /\ qFetching' = FALSE
    /\ qError' = FALSE
    /\ qHasData' = TRUE
    /\ shows' = catalog
    /\ UNCHANGED notCatalog

\* the queryFn rejects: the error is set, data of an earlier fetch is kept
FetchError ==
    /\ qFetching
    /\ qStatus' = "error"
    /\ qFetching' = FALSE
    /\ qError' = TRUE
    /\ UNCHANGED <<qHasData, shows>>
    /\ UNCHANGED notCatalog

\* refetch(): a query without data goes back to "pending" and drops its error
Refetch ==
    /\ qFetching' = TRUE
    /\ IF ~qHasData
       THEN qStatus' = "pending" /\ qError' = FALSE
       ELSE UNCHANGED <<qStatus, qError>>
    /\ UNCHANGED <<qHasData, shows>>
    /\ UNCHANGED notCatalog

\* "Try again" of ErrorState: onRetry={refetch}; the button exists only in the error panel
TryAgain ==
    /\ heroSection = "ErrorState"
    /\ ~qFetching
    /\ Refetch

\* the query refetches stale data by itself (staleTime one minute, window focus)
BackgroundRefetch ==
    /\ qHasData
    /\ ~qFetching
    /\ Refetch

CatalogNext ==
    \/ \E catalog \in Catalogs : FetchSuccess(catalog)
    \/ FetchError
    \/ TryAgain
    \/ BackgroundRefetch

(***************************************************************************)
(* The rows of the catalog: ratingMap, topRated, trendingNow               *)
(***************************************************************************)
\* catalogs of every composition up to this length
MaxRanked == 2

\* the longest catalog
LongLen == 16

\* topRated and trendingNow keep at most this many shows
TopRatedLimit == 10
TrendingLimit == 12

\* Ratings are counted in tenths of a point (imdbRating 8.7 is 87) and
\* popularityScore in hundredths (0.87 is 87), so popularityScore * 10 is the
\* same count in tenths.

\* the 10-point ratings r, in tenths, for which (r / 2).toFixed(1) rounds
\* the half tenth up: toFixed rounds the binary value of the number, which
\* lies above or below the decimal one, and takes the larger on a tie
ImdbRoundsUp ==
    {1, 5, 9, 11, 13, 15, 21, 25, 27, 31, 35, 37, 45, 47, 49, 55, 57, 59, 65, 67,
     69, 75, 77, 79, 83, 85, 89, 93, 95, 99}

\* the same for a rating computed as popularityScore * 10
PopularityRoundsUp ==
    {1, 5, 7, 11, 13, 15, 17, 21, 23, 25, 27, 31, 33, 35, 37, 39, 45, 49, 53, 55,
     65, 67, 75, 77, 79, 81, 85, 89, 93, 95, 99}

Min2(a, b) == IF a < b THEN a ELSE b
Max2(a, b) == IF a > b THEN a ELSE b

\* ratingOutOf10 of the forEach callback, in tenths; NoNumber stands for null
ratingOutOf10(show) ==
    IF show.imdbRating # NoNumber THEN show.imdbRating
    ELSE IF show.popularityScore # NoNumber THEN show.popularityScore
    ELSE NoNumber

\* Number((ratingOutOf10 / 2).toFixed(1)), in tenths
HalfToFixed(show) ==
    LET r == ratingOutOf10(show)
        up == IF show.imdbRating # NoNumber THEN ImdbRoundsUp ELSE PopularityRoundsUp
    IN  IF r % 2 = 0 THEN r \div 2
        ELSE IF r \in up \/ r > 100 THEN r \div 2 + 1
        ELSE r \div 2

\* the entry the forEach callback stores for a show
RatingEntry(show) ==
    [avg |-> Min2(50, Max2(0, HalfToFixed(show))),
     count |-> IF show.imdbVotes # NoNumber THEN show.imdbVotes
               ELSE Max2(1, (IF show.popularityScore # NoNumber THEN show.popularityScore ELSE 50) * 1000)]

\* shows.forEach of the ratingMap memo: a later show overwrites the entry of
\* an earlier one with the same id
RECURSIVE RatingMapOf(_)
RatingMapOf(s) ==
    IF s = <<>> THEN EmptyMap
    ELSE LET map == RatingMapOf(SubSeq(s, 1, Len(s) - 1))
             show == s[Len(s)]
         IN  IF ratingOutOf10(show) # NoNumber /\ ratingOutOf10(show) > 0
             THEN Put(map, show.id, RatingEntry(show))
             ELSE map

\* the ratingMap memo
ratingMap == RatingMapOf(shows)

\* map[show.id]?.avg ?? 0
AvgOf(map, show) == IF show.id \in DOMAIN map THEN map[show.id].avg ELSE 0

\* popularityScore ?? 0
PopularityOf(show) == IF show.popularityScore # NoNumber THEN show.popularityScore ELSE 0

\* Array.prototype.filter: the elements that pass, in their order; keep[i]
\* is what the callback returns for s[i]
Filter(s, keep) ==
    LET kept == {i \in DOMAIN s : keep[i]}
        At(k) == CHOOSE i \in kept : Cardinality({j \in kept : j < i}) = k - 1
    IN  [k \in 1..Cardinality(kept) |-> s[At(k)]]

\* Array.prototype.sort with the comparator key(b) - key(a), where key[i] is
\* the key of s[i]: greatest key first, and elements with equal keys in
\* their former order (the sort is stable)
SortDescending(s, key) ==
    LET Before(i) == {j \in DOMAIN s : key[j] > key[i] \/ (key[j] = key[i] /\ j < i)}
        At(k) == CHOOSE i \in DOMAIN s : Cardinality(Before(i)) = k - 1
    IN  [k \in 1..Len(s) |-> s[At(k)]]

\* the filter callback of topRated
IsRatedSeries(map, show) == show.type = "series" /\ show.id \in DOMAIN map

topRated_SliceFirst ==
    LET map == ratingMap
        rated == Slice0(Filter(shows, [i \in DOMAIN shows |-> IsRatedSeries(map, shows[i])]), TopRatedLimit)
    IN  SortDescending(rated, [i \in DOMAIN rated |-> AvgOf(map, rated[i])])

\* the topRated memo
topRated ==
    LET map == ratingMap
        rated == Filter(shows, [i \in DOMAIN shows |-> IsRatedSeries(map, shows[i])])
    IN  Slice0(SortDescending(rated, [i \in DOMAIN rated |-> AvgOf(map, rated[i])]), TopRatedLimit)

\* the filter callback of trendingNow
IsTrending(show) == show.trending

trendingNow_Unsorted ==
    LET trending == Filter(shows, [i \in DOMAIN shows |-> IsTrending(shows[i])])
        fallback == Filter(shows, [i \in DOMAIN shows |-> ~IsTrending(shows[i])])
    IN  Slice0(IF Len(trending) > 0 THEN trending ELSE fallback, TrendingLimit)

\* the trendingNow memo
trendingNow ==
    LET trending == Filter(shows, [i \in DOMAIN shows |-> IsTrending(shows[i])])
        ordered == SortDescending(trending, [i \in DOMAIN trending |-> PopularityOf(trending[i])])
        fallback == Filter(shows, [i \in DOMAIN shows |-> ~IsTrending(shows[i])])
    IN  Slice0(IF Len(ordered) > 0 THEN ordered ELSE fallback, TrendingLimit)

\* the kinds of show the catalogs below are made of
Kind(type, imdbRating, popularityScore, imdbVotes, trending, spotlight, heroPriority) ==
    [type |-> type, imdbRating |-> imdbRating, popularityScore |-> popularityScore,
     imdbVotes |-> imdbVotes, trending |-> trending, spotlight |-> spotlight,
     heroPriority |-> heroPriority]

Kinds ==
    <<Kind("series", 87, NoNumber, 1234, TRUE, TRUE, 2),
      Kind("series", 20, 20, 1234, TRUE, TRUE, NoPriority),
      Kind("movie", 90, 90, 1234, TRUE, TRUE, 1),
      Kind("series", NoNumber, 95, NoNumber, TRUE, TRUE, 2),
      Kind("series", NoNumber, NoNumber, NoNumber, FALSE, FALSE, 1),
      Kind("series", 110, NoNumber, NoNumber, TRUE, TRUE, 1),
      Kind("series", NoNumber, 70, 0, TRUE, TRUE, 1),
      Kind("series", 0, 70, NoNumber, TRUE, FALSE, NoPriority),
      Kind("series", 85, 50, NoNumber, FALSE, FALSE, NoPriority),
      Kind("series", 87, 50, NoNumber, FALSE, FALSE, NoPriority)>>

\* the show of kind k with the id `id`
ShowOfKind(k, id) ==
    [id |-> id, type |-> Kinds[k].type, imdbRating |-> Kinds[k].imdbRating,
     popularityScore |-> Kinds[k].popularityScore, imdbVotes |-> Kinds[k].imdbVotes,
     trending |-> Kinds[k].trending, spotlight |-> Kinds[k].spotlight,
     heroPriority |-> Kinds[k].heroPriority]

\* the catalogs of every composition, with the position as id
ShortCatalogs ==
    UNION {{[i \in 1..n |-> ShowOfKind(c[i], i)] : c \in [1..n -> DOMAIN Kinds]} : n \in 0..MaxRanked}

\* long catalogs: the m kinds after kind lo in turn, from the kind at
\* offset first on in steps of step
LongCatalog(n, lo, m, first, step) ==
    [i \in 1..n |-> ShowOfKind(lo + ((first + i * step) % m) + 1, i)]

\* the runs <<lo, m>> of kinds the long catalogs are made of: one kind, the
\* rated and trending kinds, those with a movie and an unrated series, all
\* kinds, and the last two (not trending, not in the spotlight)
KindRuns == {<<0, 1>>, <<0, 3>>, <<0, 6>>, <<0, Len(Kinds)>>, <<Len(Kinds) - 2, 2>>}

LongCatalogs ==
    {LongCatalog(n, run[1], run[2], first, step) :
        n \in (HeroLimit + 1)..LongLen, run \in KindRuns, first \in 0..2, step \in {1, 2}}

RankedCatalogs == ShortCatalogs \cup LongCatalogs

RankingNext ==
    \/ \E c \in RankedCatalogs : FetchSuccess(c)
    \/ BackgroundRefetch

(***************************************************************************)
(* Chat sidebar: handleSend                                                *)
(***************************************************************************)
\* requests awaiting the AI service at the same time
MaxInFlight == 2

\* accepted sends in one run
MaxSends == 2

Greeting == "Hi! Tell me what you're in the mood for and I'll recommend a show from this catalog."
NoRecommendationText == "I couldn't generate a recommendation right now."
UnreachableText == "Sorry, I couldn't reach the AI service. Try again later."
DefaultSummary == "Here are a few titles you might love:"

Message(role, content, recommendations) ==
    [role |-> role, content |-> content, recommendations |-> recommendations]

\* what the user can have typed
Inputs == {"", "  ", "funny ", "thriller"}

\* String.prototype.trim on the texts of the model
TrimText(text) ==
    CASE text = "  " -> ""
      [] text = "funny " -> "funny"
      [] text = " Try Dark. " -> "Try Dark."
      [] OTHER -> text

\* The texts the AI service puts into a text field of its response:
\*   "{}"                the empty JSON object
\*   "recs"              JSON with a non-empty recommendations array and no summary
\*   "summary and recs"  the same with the summary "Picks"
\*   "fenced recs"       "recs" inside a json code fence
\*   "no recs"           JSON with an empty recommendations array
\*   " Try Dark. "       prose

\* the two replace calls that remove a leading and a trailing code fence
StripFence(text) == IF text = "fenced recs" THEN "recs" ELSE text

\* JSON.parse of the cleaned text inside try / catch: null when it throws
ParseReply(text) ==
    CASE text = "{}" -> [isNull |-> FALSE, recommendations |-> 0, summary |-> ""]
      [] text = "recs" -> [isNull |-> FALSE, recommendations |-> 1, summary |-> ""]
      [] text = "summary and recs" -> [isNull |-> FALSE, recommendations |-> 1, summary |-> "Picks"]
      [] text = "no recs" -> [isNull |-> FALSE, recommendations |-> 0, summary |-> ""]
      [] OTHER -> [isNull |-> TRUE, recommendations |-> 0, summary |-> ""]

\* a field that the response does not have
Absent == "absent"

\* `output` that is not an array, so that data.output.map is not a function
NotArray == "notArray"

\* the JSON bodies: output is absent, not an array, or the concatenation of
\* its text pieces; output_text and choices[0].message.content are absent or a text
Bodies ==
    [output : {Absent, NotArray, "", " Try Dark. ", "summary and recs", "fenced recs"},
     output_text : {Absent, " Try Dark. "},
     choices : {Absent, "recs", "no recs"}]

\* what the AI service can do: the request rejects, the body is not JSON, or a JSON body
Replies ==
    {[kind |-> "reject", body |-> [output |-> Absent, output_text |-> Absent, choices |-> Absent]],
     [kind |-> "notJson", body |-> [output |-> Absent, output_text |-> Absent, choices |-> Absent]]}
    \cup {[kind |-> "json", body |-> b] : b \in Bodies}

\* the body carries no output text at all (an error payload, for example)
NoText(reply) ==
    /\ reply.kind = "json"
    /\ reply.body.output = Absent
    /\ reply.body.output_text = Absent
    /\ reply.body.choices = Absent

\* textFromOutput: the joined output pieces, else output_text, else the
\* content of the first choice, else the text of an empty JSON object
textFromOutput(body) ==
    IF body.output # Absent THEN body.output
    ELSE IF body.output_text # Absent THEN body.output_text
    ELSE IF body.choices # Absent THEN body.choices
    ELSE "{}"

\* the assistant message of the catch block
UnreachableMessage == Message("assistant", UnreachableText, 0)

\* the assistant message handleSend appends for a reply
AssistantMessage(reply) ==
    IF reply.kind # "json" \/ reply.body.output = NotArray
    THEN UnreachableMessage
    ELSE LET text == textFromOutput(reply.body)
             parsed == ParseReply(StripFence(TrimText(text)))
         IN  IF ~parsed.isNull /\ parsed.recommendations > 0
             THEN Message("assistant",
                          IF TrimText(parsed.summary) # "" THEN TrimText(parsed.summary) ELSE DefaultSummary,
                          parsed.recommendations)
             ELSE Message("assistant",
                          IF TrimText(text) # "" THEN TrimText(text) ELSE NoRecommendationText,
                          0)

ChatIdle ==
    /\ openAiKey = ""
    /\ input = ""
    /\ messages = <<Message("assistant", Greeting, 0)>>
    /\ isSending = FALSE
    /\ inFlight = 0
    /\ lastOutcome = "none"

ChatInit ==
    /\ openAiKey \in {"", "sk-key"}
    /\ input = ""
    /\ messages = <<Message("assistant", Greeting, 0)>>
    /\ isSending = FALSE
    /\ inFlight = 0
    /\ lastOutcome = "none"

\* onChange of the textarea
SetInput(text) ==
    /\ input' = text
    /\ UNCHANGED <<openAiKey, messages, isSending, inFlight, lastOutcome>>
    /\ UNCHANGED notChat

\* handleSend up to `await fetch(...)`; called by the Send button and by Enter
handleSend ==
    /\ inFlight < MaxInFlight
    /\ Len(messages) < 1 + 2 * MaxSends
    /\ IF TrimText(input) = "" \/ openAiKey = ""
       THEN UNCHANGED <<input, messages, isSending, inFlight, lastOutcome>>
       ELSE /\ messages' = Append(messages, Message("user", TrimText(input), 0))
            /\ input' = ""
            /\ isSending' = TRUE
            /\ inFlight' = inFlight + 1
            /\ lastOutcome' = "none"
    /\ UNCHANGED openAiKey
    /\ UNCHANGED notChat

Respond_NoFinally(reply) ==
    /\ inFlight > 0
    /\ inFlight' = inFlight - 1
    /\ messages' = Append(messages, AssistantMessage(reply))
    /\ isSending' = IF reply.kind = "json" THEN FALSE ELSE isSending
    /\ lastOutcome' = IF NoText(reply) THEN "noText" ELSE reply.kind
    /\ UNCHANGED <<openAiKey, input>>
    /\ UNCHANGED notChat

Respond_Silent(reply) ==
    /\ inFlight > 0
    /\ inFlight' = inFlight - 1
    /\ messages' = IF AssistantMessage(reply).recommendations > 0 \/ reply.kind # "json"
                   THEN Append(messages, AssistantMessage(reply))
                   ELSE messages
    /\ isSending' = FALSE
    /\ lastOutcome' = IF NoText(reply) THEN "noText" ELSE reply.kind
    /\ UNCHANGED <<openAiKey, input>>
    /\ UNCHANGED notChat

\* the AI service answers one request and handleSend runs to its end
Respond(reply) ==
    /\ inFlight > 0
    /\ inFlight' = inFlight - 1
    /\ messages' = Append(messages, AssistantMessage(reply))
    /\ isSending' = FALSE
    /\ lastOutcome' = IF NoText(reply) THEN "noText" ELSE reply.kind
    /\ UNCHANGED <<openAiKey, input>>
    /\ UNCHANGED notChat

\* onClick of the Send button, which is disabled while isSending or while
\* the input is blank
SendClick ==
    /\ ~isSending
    /\ TrimText(input) # ""
    /\ handleSend

\* handleKeyDown of the textarea, which is never disabled: Enter without
\* Shift sends
handleKeyDown(key) ==
    IF key = "Enter" THEN handleSend ELSE UNCHANGED vars

\* the AI service answers, or the request fails
Answer == \E reply \in Replies : Respond(reply)

ChatNext ==
    \/ \E text \in Inputs : SetInput(text)
    \/ SendClick
    \/ \E key \in {"Enter", "Shift+Enter"} : handleKeyDown(key)
    \/ Answer

(***************************************************************************)
(* Hero carousel                                                           *)
(***************************************************************************)
\* the longest list of hero shows
MaxHero == 3

\* requestAnimationFrame callbacks waiting at the same time
MaxRaf == 2

\* hero clip of a show: no clip, an mp4 (rendered as <video>), a gif (rendered as <img>)
ClipUrls == {"none", "a.mp4", "b.gif"}

\* the `shows` prop: the first n hero shows, by id
HeroLists == {[i \in 1..n |-> i] : n \in 0..MaxHero}

\* the `clips` prop for a list of hero shows
ClipMaps(list) == [Range(list) -> ClipUrls]

\* shows[current] exists (indices count from 0)
HasActive(list, cur) == cur >= 0 /\ cur < Len(list)

\* key of the media element rendered for shows[current]: the clip URL, "static"
\* for the artwork <img>, "null" when the component renders nothing
MediaKey(list, clipMap, cur) ==
    IF ~HasActive(list, cur) THEN "null"
    ELSE IF clipMap[list[cur + 1]] = "none" THEN "static"
    ELSE clipMap[list[cur + 1]]

\* only the clip elements have an onCanPlay / onLoad handler
HasLoadHandler(key) == key \notin {"null", "static"}

\* whether a load event is outstanding after a render that changes the media
\* element from oldKey to newKey: an element with a new key is mounted and loads
LoadAfter(oldKey, newKey, wasPending) ==
    IF newKey = oldKey THEN wasPending
    ELSE HasLoadHandler(newKey)

\* a state updater for `current` waiting in a requestAnimationFrame callback
AddCallback(offset, n) == [op |-> "add", arg |-> offset, n |-> n]
SetCallback(index) == [op |-> "set", arg |-> index, n |-> 0]
AnimateCallback == [op |-> "animate", arg |-> 0, n |-> 0]

\* the value the updater gives to `current`
Updated(callback, prev) ==
    IF callback.op = "add" THEN (prev + callback.arg + callback.n) % callback.n
    ELSE IF callback.op = "set" THEN callback.arg
    ELSE prev

HeroIdle ==
    /\ carouselShows = <<>>
    /\ clips = EmptyMap
    /\ current = 0
    /\ isAnimating = FALSE
    /\ rafQueue = <<>>
    /\ loadPending = FALSE

\* the carousel after its mount: useState(0), useState(false), the mount
\* effect, and the media element of the first show loading
HeroInit ==
    /\ carouselShows \in HeroLists
    /\ clips \in ClipMaps(carouselShows)
    /\ current = 0
    /\ isAnimating = FALSE
    /\ rafQueue = <<>>
    /\ loadPending = HasLoadHandler(MediaKey(carouselShows, clips, 0))

Tick_NoWrap ==
    /\ Len(carouselShows) > 1
    /\ Len(rafQueue) < MaxRaf
    /\ isAnimating' = FALSE
    /\ rafQueue' = Append(rafQueue, AddCallback(1, Len(carouselShows) + 1))
    /\ UNCHANGED <<carouselShows, clips, current, loadPending>>
    /\ UNCHANGED notHero

\* the setInterval callback; the interval exists only when shows.length > 1
Tick ==
    /\ Len(carouselShows) > 1
    /\ Len(rafQueue) < MaxRaf
    /\ isAnimating' = FALSE
    /\ rafQueue' = Append(rafQueue, AddCallback(1, Len(carouselShows)))
    /\ UNCHANGED <<carouselShows, clips, current, loadPending>>
    /\ UNCHANGED notHero

\* goTo(offset), the previous / next arrows; rendered only with an active show
goTo(offset) ==
    /\ HasActive(carouselShows, current)
    /\ Len(rafQueue) < MaxRaf
    /\ isAnimating' = FALSE
    /\ rafQueue' = Append(rafQueue, AddCallback(offset, Len(carouselShows)))
    /\ UNCHANGED <<carouselShows, clips, current, loadPending>>
    /\ UNCHANGED notHero

\* onClick of the dot of position index (counted from 0)
DotClick(index) ==
    /\ HasActive(carouselShows, current)
    /\ index < Len(carouselShows)
    /\ Len(rafQueue) < MaxRaf
    /\ isAnimating' = FALSE
    /\ rafQueue' = Append(rafQueue, SetCallback(index))
    /\ UNCHANGED <<carouselShows, clips, current, loadPending>>
    /\ UNCHANGED notHero

\* the browser runs the oldest requestAnimationFrame callback, and the
\* component renders with the new state
AnimationFrame ==
    /\ rafQueue # <<>>
    /\ LET callback == Head(rafQueue)
           next == Updated(callback, current)
       IN  /\ current' = next
           /\ isAnimating' = IF callback.op = "animate" THEN TRUE ELSE isAnimating
           /\ loadPending' = LoadAfter(MediaKey(carouselShows, clips, current),
                                       MediaKey(carouselShows, clips, next), loadPending)
    /\ rafQueue' = Tail(rafQueue)
    /\ UNCHANGED <<carouselShows, clips>>
    /\ UNCHANGED notHero

\* onCanPlay of the <video> / onLoad of the clip <img>
MediaLoaded ==
    /\ loadPending
    /\ Len(rafQueue) < MaxRaf
    /\ loadPending' = FALSE
    /\ rafQueue' = Append(rafQueue, AnimateCallback)
    /\ UNCHANGED <<carouselShows, clips, current, isAnimating>>
    /\ UNCHANGED notHero

\* the catalog changes and App passes a new heroShows: the render with the
\* old `current`, then the [shows] effect (setCurrent(0), setIsAnimating(false));
\* an empty list unmounts the carousel, a list after an empty one mounts a new one
ShowsChange(list, clipMap) ==
    /\ list # carouselShows
    /\ carouselShows' = list
    /\ clips' = clipMap
    /\ isAnimating' = FALSE
    /\ IF list = <<>> \/ carouselShows = <<>>
       THEN /\ current' = 0
            /\ rafQueue' = <<>>
            /\ loadPending' = HasLoadHandler(MediaKey(list, clipMap, 0))
       ELSE /\ current' = 0
            /\ rafQueue' = rafQueue
            /\ LET key0 == MediaKey(carouselShows, clips, current)
                   key1 == MediaKey(list, clipMap, current)
                   key2 == MediaKey(list, clipMap, 0)
               IN  loadPending' = LoadAfter(key1, key2, LoadAfter(key0, key1, loadPending))
    /\ UNCHANGED notHero

\* the Giphy query delivers other clips for the same hero shows
ClipsChange(clipMap) ==
    /\ carouselShows # <<>>
    /\ clipMap # clips
    /\ clips' = clipMap
    /\ loadPending' = LoadAfter(MediaKey(carouselShows, clips, current),
                                MediaKey(carouselShows, clipMap, current), loadPending)
    /\ UNCHANGED <<carouselShows, current, isAnimating, rafQueue>>
    /\ UNCHANGED notHero

\* the carousel left to itself: no user input, no change of its props
TimerNext ==
    \/ Tick
    \/ AnimationFrame
    \/ MediaLoaded

HeroNext ==
    \/ Tick
    \/ \E offset \in {-1, 1} : goTo(offset)
    \/ \E index \in 0..(MaxHero - 1) : DotClick(index)
    \/ AnimationFrame
    \/ MediaLoaded
    \/ \E list \in HeroLists : \E clipMap \in ClipMaps(list) : ShowsChange(list, clipMap)
    \/ \E clipMap \in ClipMaps(carouselShows) : ClipsChange(clipMap)

(***************************************************************************)
(* fetchShows: the seed catalog merged with the OMDb details               *)
(***************************************************************************)
\* the longest NETFLIX_CATALOG
MaxSeeds == 2

\* the longest runtime text, in tokens
MaxTokens == 4

\* an array property that is undefined
NoGenres == <<Undefined>>

\* a ?? b on numbers
Coalesce(a, b) == IF a = NoNumber THEN b ELSE a

\* a ?? b on strings
CoalesceText(a, b) == IF a = Undefined THEN b ELSE a

\* ---- the texts of an OMDb body ----
\* Runtime is modelled as its sequence of tokens: a run of digits, a run of
\* letters (or N/A), a run of white space; an absent Runtime and the empty
\* string are both the empty sequence, and both are falsy
Digits(n) == [t |-> "digits", n |-> n, w |-> ""]
Word(w) == [t |-> "word", n |-> 0, w |-> w]
Space == [t |-> "space", n |-> 0, w |-> ""]

\* the letter runs of the model that begin with "min" and with "h" (flag i)
StartsWithMin(w) == w \in {"min", "Min", "mins"}
StartsWithH(w) == w \in {"h", "hr", "hour", "hours"}

\* the letter runs that h(?:ours?)? matches to their end
IsHours(w) == w \in {"h", "hour", "hours"}

\* \s* from position i: the first position that is not white space
SkipSpace(v, i) ==
    LET stops == {j \in i..(Len(v) + 1) : j = Len(v) + 1 \/ v[j].t # "space"}
    IN  CHOOSE j \in stops : \A k \in stops : j <= k

\* /(\d+)\s*min/i matches with its digits at position i
MinutesMatchAt(v, i) ==
    /\ v[i].t = "digits"
    /\ LET j == SkipSpace(v, i + 1)
       IN  j <= Len(v) /\ v[j].t = "word" /\ StartsWithMin(v[j].w)

\* /(\d+)\s*h(?:ours?)?\s*(\d+)?/i matches with its first digits at position i
HoursMatchAt(v, i) ==
    /\ v[i].t = "digits"
    /\ LET j == SkipSpace(v, i + 1)
       IN  j <= Len(v) /\ v[j].t = "word" /\ StartsWithH(v[j].w)

\* the second group of the hours pattern for a match at position i: the
\* digits after the hours word and white space, if any
HoursMinutes(v, i) ==
    LET j == SkipSpace(v, i + 1)
        k == SkipSpace(v, j + 1)
    IN  IF IsHours(v[j].w) /\ k <= Len(v) /\ v[k].t = "digits" THEN v[k].n ELSE 0

\* String.prototype.match without the g flag: the leftmost match
First(S) == CHOOSE i \in S : \A j \in S : i <= j

\* parseRuntime: the minutes pattern is tried first, the hours pattern only
\* when it does not match
parseRuntime(value) ==
    LET minutes == {i \in DOMAIN value : MinutesMatchAt(value, i)}
        hours == {i \in DOMAIN value : HoursMatchAt(value, i)}
    IN  IF value = <<>> THEN NoNumber
        ELSE IF minutes # {} THEN value[First(minutes)].n
        ELSE IF hours # {}
        THEN value[First(hours)].n * 60 + HoursMinutes(value, First(hours))
        ELSE NoNumber

\* the runtime texts of the bodies below
RuntimeMin == <<Digits(58), Space, Word("min")>>
RuntimeHMin == <<Digits(1), Space, Word("h"), Space, Digits(58), Space, Word("min")>>
RuntimeNA == <<Word("N/A")>>

\* the tokens the runtime texts are made of
RuntimeTokens == {Digits(1), Digits(58), Word("h"), Word("hours"), Word("min"), Word("N/A")}

\* the text with one blank between its tokens
Spaced(v) ==
    [k \in 1..(IF Len(v) = 0 THEN 0 ELSE 2 * Len(v) - 1) |-> IF k % 2 = 1 THEN v[(k + 1) \div 2] ELSE Space]

\* the runtime texts: up to MaxTokens tokens, written without blanks (where
\* neighbours are runs of different kinds) or with one blank between them
RuntimeTexts ==
    LET raw == SeqUpTo(RuntimeTokens, MaxTokens)
    IN  {Spaced(v) : v \in raw}
        \cup {v \in raw : \A k \in 1..(Len(v) - 1) : v[k].t # v[k + 1].t}

RuntimeIdle ==
    /\ rtValue = <<>>
    /\ rtParsed = [done |-> FALSE, minutes |-> NoNumber]

RuntimeInit ==
    /\ rtValue \in RuntimeTexts
    /\ rtParsed = [done |-> FALSE, minutes |-> NoNumber]

\* the call parseRuntime(body.Runtime) of fetchDetails
ParseRuntime ==
    /\ ~rtParsed.done
    /\ rtParsed' = [done |-> TRUE, minutes |-> parseRuntime(rtValue)]
    /\ UNCHANGED rtValue
    /\ UNCHANGED <<batchVars, listVars, catalogVars, chatVars, heroVars, fetchVars, playerVars>>

RuntimeNext == ParseRuntime

\* sanitize
sanitize(value) == IF value # Undefined /\ value # "" /\ value # "N/A" THEN value ELSE Undefined

\* parseGenres on the Genre texts of the model: split(","), trim, filter(Boolean)
parseGenres(value) ==
    CASE value = "Drama, Crime" -> <<"Drama", "Crime">>
      [] value = " , " -> <<>>
      [] OTHER -> NoGenres

\* Number(value) on the texts of the model, in tenths; NoNumber stands for NaN
NumberOf(value) ==
    CASE value = "8.7" -> 87
      [] value = "0" -> 0
      [] value = "1234" -> 12340
      [] OTHER -> NoNumber

\* parseFloatSafe: the rating in tenths
parseFloatSafe(value) ==
    IF value = Undefined \/ value = "" \/ value = "N/A" THEN NoNumber
    ELSE NumberOf(value)

\* value.replace(/,/g, "")
RemoveCommas(value) == IF value = "1,234" THEN "1234" ELSE value

\* parseIntSafe: the votes in tenths
parseIntSafe(value) ==
    IF value = Undefined \/ value = "" \/ value = "N/A" THEN NoNumber
    ELSE NumberOf(RemoveCommas(value))

\* parseYear: the first four digits in a row
parseYear(value) ==
    CASE value = "2016-2019" -> 2016
      [] value = "2021" -> 2021
      [] OTHER -> NoNumber

\* OMDb bodies with Response "True"
FullBody ==
    [Poster |-> "p.jpg", Plot |-> "omdb plot", Rated |-> "TV-MA", Runtime |-> RuntimeMin,
     Genre |-> "Drama, Crime", Year |-> "2016-2019", imdbRating |-> "8.7",
     imdbVotes |-> "1,234", Type |-> "movie"]

NABody ==
    [Poster |-> "N/A", Plot |-> "N/A", Rated |-> "N/A", Runtime |-> RuntimeNA,
     Genre |-> "N/A", Year |-> "N/A", imdbRating |-> "N/A",
     imdbVotes |-> "N/A", Type |-> Undefined]

BareBody ==
    [Poster |-> Undefined, Plot |-> Undefined, Rated |-> Undefined, Runtime |-> <<>>,
     Genre |-> Undefined, Year |-> Undefined, imdbRating |-> Undefined,
     imdbVotes |-> Undefined, Type |-> Undefined]

OddBody ==
    [Poster |-> "", Plot |-> "omdb plot", Rated |-> "N/A", Runtime |-> RuntimeHMin,
     Genre |-> " , ", Year |-> "2021", imdbRating |-> "abc",
     imdbVotes |-> "0", Type |-> "episode"]

OmdbBodies == {FullBody, NABody, BareBody, OddBody}

\* the object fetchDetails returns for a body with Response "True"
Details(body) ==
    [poster |-> sanitize(body.Poster),
     plot |-> sanitize(body.Plot),
     rated |-> sanitize(body.Rated),
     runtimeMinutes |-> parseRuntime(body.Runtime),
     genres |-> parseGenres(body.Genre),
     imdbRating |-> parseFloatSafe(body.imdbRating),
     imdbVotes |-> parseIntSafe(body.imdbVotes),
     year |-> parseYear(body.Year),
     type |-> IF body.Type = "movie" \/ body.Type = "series" THEN body.Type ELSE Undefined]

\* ---- the catalog ----
\* the properties of a seed
SeedFields == {"id", "title", "releaseYear", "maturityRating", "runtimeMinutes", "synopsis", "type", "collections"}

\* the seeds at position k of NETFLIX_CATALOG: id and releaseYear are
\* optional; the title stands for the k-th title
Seeds(k) ==
    [id : {NoNumber} \cup (1..MaxSeeds), title : {k}, releaseYear : {NoNumber, 2019},
     maturityRating : {"TV-14"}, runtimeMinutes : {50}, synopsis : {"seed synopsis"},
     type : {"series"}, collections : {<<"trending">>}]

\* the catalogs: the ids given explicitly are pairwise distinct
SeedCatalogs ==
    UNION {{c \in [1..n -> UNION {Seeds(k) : k \in 1..n}] :
              /\ \A k \in 1..n : c[k] \in Seeds(k)
              /\ \A j, k \in 1..n : (c[j].id # NoNumber /\ c[j].id = c[k].id) => j = k}
           : n \in 0..MaxSeeds}

\* the callback of NETFLIX_CATALOG.map: { ...seed, id: seed.id ?? index + 1 }
ToShow(seed, index) ==
    [id |-> Coalesce(seed.id, index + 1), title |-> seed.title, releaseYear |-> seed.releaseYear,
     maturityRating |-> seed.maturityRating, runtimeMinutes |-> seed.runtimeMinutes,
     synopsis |-> seed.synopsis, type |-> seed.type, collections |-> seed.collections,
     poster |-> Undefined, genres |-> NoGenres, imdbRating |-> NoNumber, imdbVotes |-> NoNumber]

\* the OMDb year replaces the year of the seed
Merge_OmdbYearFirst(show, omdb) ==
    [show EXCEPT
       !.releaseYear = Coalesce(omdb.year, show.releaseYear),
       !.maturityRating = CoalesceText(omdb.rated, show.maturityRating),
       !.runtimeMinutes = Coalesce(omdb.runtimeMinutes, show.runtimeMinutes),
       !.synopsis = CoalesceText(omdb.plot, show.synopsis),
       !.poster = CoalesceText(omdb.poster, show.poster),
       !.imdbRating = Coalesce(omdb.imdbRating, show.imdbRating),
       !.imdbVotes = Coalesce(omdb.imdbVotes, show.imdbVotes),
       !.type = IF omdb.type = "movie" \/ omdb.type = "series" THEN omdb.type ELSE show.type,
       !.genres = IF omdb.genres # NoGenres /\ Len(omdb.genres) > 0 THEN omdb.genres ELSE show.genres]

\* the object returned by the callback of catalog.map for a show with details
Merge(show, omdb) ==
    [show EXCEPT
       !.releaseYear = Coalesce(show.releaseYear, Coalesce(omdb.year, show.releaseYear)),
       !.maturityRating = CoalesceText(omdb.rated, show.maturityRating),
       !.runtimeMinutes = Coalesce(omdb.runtimeMinutes, show.runtimeMinutes),
       !.synopsis = CoalesceText(omdb.plot, show.synopsis),
       !.poster = CoalesceText(omdb.poster, show.poster),
       !.imdbRating = Coalesce(omdb.imdbRating, show.imdbRating),
       !.imdbVotes = Coalesce(omdb.imdbVotes, show.imdbVotes),
       !.type = IF omdb.type = "movie" \/ omdb.type = "series" THEN omdb.type ELSE show.type,
       !.genres = IF omdb.genres # NoGenres /\ Len(omdb.genres) > 0 THEN omdb.genres ELSE show.genres]

\* the callback of catalog.map
MergeShow(show, detailsMap) ==
    IF show.id \in DOMAIN detailsMap THEN Merge(show, detailsMap[show.id]) ELSE show

FetchIdle ==
    /\ seeds = <<>>
    /\ omdbKey = ""
    /\ fsCatalog = <<>>
    /\ fsStatus = "idle"
    /\ fsShows = <<>>

\* the build: its seed catalog and its OMDb key (undefined is the empty key)
FetchInit ==
    /\ seeds \in SeedCatalogs
    /\ omdbKey \in ApiKeys
    /\ fsCatalog = <<>>
    /\ fsStatus = "idle"
    /\ fsShows = <<>>

\* fetchShows() up to `await fetchOmdbDetails(catalog, omdbKey)`
fetchShows ==
    /\ fsStatus = "idle"
    /\ LET cat == [k \in DOMAIN seeds |-> ToShow(seeds[k], k - 1)]
       IN  /\ fsCatalog' = cat
           /\ IF Trim(omdbKey) = ""
              THEN /\ fsStatus' = "resolved"
                   /\ fsShows' = cat
                   /\ UNCHANGED batchVars
              ELSE /\ fsStatus' = "pending"
                   /\ fsShows' = fsShows
                   /\ CallBatch("omdb", [k \in DOMAIN cat |-> cat[k].id], Trim(omdbKey))
    /\ UNCHANGED <<seeds, omdbKey>>
    /\ UNCHANGED notFetch

\* one OMDb request of the running call completes
LookupDone(i, outcome, body) ==
    /\ fsStatus = "pending"
    /\ CompleteWith(i, outcome, Details(body))
    /\ UNCHANGED fetchVars
    /\ UNCHANGED notFetch

\* fetchOmdbDetails has settled and fetchShows runs to its end
FetchReturn ==
    /\ fsStatus = "pending"
    /\ batchStatus \in {"resolved", "rejected"}
    /\ IF batchStatus = "resolved"
       THEN /\ fsStatus' = "resolved"
            /\ fsShows' = [k \in DOMAIN fsCatalog |-> MergeShow(fsCatalog[k], results)]
       ELSE /\ fsStatus' = "rejected"
            /\ fsShows' = fsShows
    /\ UNCHANGED <<seeds, omdbKey, fsCatalog>>
    /\ UNCHANGED batchVars
    /\ UNCHANGED notFetch

\* the bodies that go with an outcome: only Response "True" carries details
BodiesOf(outcome) == IF outcome = "True" THEN OmdbBodies ELSE {BareBody}

FetchNext ==
    \/ fetchShows
    \/ \E i \in 1..MaxSeeds : \E outcome \in OmdbOutcomes : \E body \in BodiesOf(outcome) :
          LookupDone(i, outcome, body)
    \/ FetchReturn

(***************************************************************************)
(* Player overlay (App: playerState; PlayerOverlay)                        *)
(***************************************************************************)
\* launchPlayer calls of one run
MaxLaunches == 3

\* Back presses whose timer has not fired yet
MaxTimers == 2

\* `show: null` of playerState
NoShow == 0

\* shows a player can be launched for
PlayerShows == 1..2

\* clip ? /\.mp4($|\?)/i.test(clip) : false -- the overlay renders a <video>
isVideo(clip) == clip = "a.mp4"

\* a <video> element is mounted: videoRef.current is set
VideoMounted == playerShow # NoShow /\ isVideo(playerClip)

\* no player has been launched: useState({ show: null, clip: null }),
\* useState(true) for isPlaying, useState(false) for isVisible
PlayerIdle ==
    /\ playerShow = NoShow
    /\ playerClip = "none"
    /\ isPlaying = TRUE
    /\ isVisible = FALSE
    /\ videoPaused = TRUE
    /\ canPlay = TRUE
    /\ closeTimers = <<>>
    /\ launches = 0

\* launchPlayer(show, clip) from a Play button of the page, which the overlay
\* (fixed inset-0 z-[60]) covers while it is rendered. The render mounts the
\* media element; a <video autoPlay muted> starts playing unless the browser
\* cannot play it; the [state.show] effect sets isVisible; the [state] effect
\* calls video.play() and sets isPlaying to false when that promise rejects.
\* isPlaying is state of the overlay component, which is mounted once for the
\* whole life of App: nothing else assigns it here.
launchPlayer(show, clip, playable) ==
    /\ playerShow = NoShow
    /\ launches < MaxLaunches
    /\ launches' = launches + 1
    /\ playerShow' = show
    /\ playerClip' = clip
    /\ canPlay' = IF isVideo(clip) THEN playable ELSE TRUE
    /\ isVisible' = TRUE
    /\ videoPaused' = IF isVideo(clip) THEN ~playable ELSE TRUE
    /\ isPlaying' = IF isVideo(clip) /\ ~playable THEN FALSE ELSE isPlaying
    /\ UNCHANGED <<closeTimers>>
    /\ UNCHANGED notPlayer

\* click on the play / pause button of the overlay
handleToggle ==
    /\ playerShow # NoShow
    /\ IF ~VideoMounted
         THEN UNCHANGED <<videoPaused, isPlaying>>
         ELSE IF videoPaused
                THEN /\ videoPaused' = ~canPlay    \* play().catch(() => {})
                     /\ isPlaying' = TRUE
                ELSE /\ videoPaused' = TRUE
                     /\ isPlaying' = FALSE
    /\ UNCHANGED <<playerShow, playerClip, isVisible, canPlay, closeTimers, launches>>
    /\ UNCHANGED notPlayer

\* click on Back: setTimeout(onClose, 350); the timer remembers nothing, the
\* model records the number of launches at the time of the press
handleClose ==
    /\ playerShow # NoShow
    /\ Len(closeTimers) < MaxTimers
    /\ isVisible' = FALSE
    /\ closeTimers' = Append(closeTimers, launches)
    /\ UNCHANGED <<playerShow, playerClip, isPlaying, videoPaused, canPlay, launches>>
    /\ UNCHANGED notPlayer

\* the oldest close timer fires (equal delays fire in the order they were set):
\* closePlayer sets playerState to { show: null, clip: null }; the media element
\* is unmounted and the cleanup of the [state.show] effect runs
closePlayer ==
    /\ closeTimers # <<>>
    /\ closeTimers' = Tail(closeTimers)
    /\ playerShow' = NoShow
    /\ playerClip' = "none"
    /\ videoPaused' = TRUE
    /\ isVisible' = FALSE
    /\ UNCHANGED <<isPlaying, canPlay, launches>>
    /\ UNCHANGED notPlayer

PlayerNext ==
    \/ \E show \in PlayerShows, clip \in ClipUrls, playable \in BOOLEAN :
          launchPlayer(show, clip, playable)
    \/ handleToggle
    \/ handleClose
    \/ closePlayer

(***************************************************************************)
(* Hero media and artwork (HeroCarousel, getArtworkForShow)                *)
(***************************************************************************)
\* the pair fetchClipPair returns: select(first) and select(second), "none"
\* for null
ClipPair(value) ==
    [primary |-> IF value \in {"primary", "both"} THEN "a.mp4" ELSE "none",
     secondary |-> IF value \in {"both", "secondary"} THEN "b.gif" ELSE "none"]

\* clips[activeShow.id] || {}
heroClipData(clipMap, id) ==
    IF id \in DOMAIN clipMap THEN ClipPair(clipMap[id])
    ELSE [primary |-> "none", secondary |-> "none"]

\* heroClipData.secondary ?? heroClipData.primary ?? null
heroClip(data) == IF data.secondary # "none" THEN data.secondary ELSE data.primary

\* the clip the Play button passes to onPlay: heroClipData.primary ?? heroClip
PlayClip(data) == IF data.primary # "none" THEN data.primary ELSE heroClip(data)

\* the URL generated from the title of the show (the title stands for its
\* lower-cased, dashed and encoded form)
buildFallbackArtworkUrl(show, variant) ==
    <<"https://picsum.photos/seed", show.title, IF variant = "hero" THEN "1600/900" ELSE "500/750">>

\* posters[show.id] ?? buildFallbackArtworkUrl(show, variant)
getArtworkForShow(show, posters, variant) ==
    IF show.id \in DOMAIN posters THEN posters[show.id]
    ELSE buildFallbackArtworkUrl(show, variant)

\* the media element the hero section renders for the active show
HeroMedia(show, clipMap, posters) ==
    LET clip == heroClip(heroClipData(clipMap, show.id))
        backgroundFallback == getArtworkForShow(show, posters, "hero")
    IN  IF clip = "none" THEN [element |-> "img", src |-> backgroundFallback]
        ELSE IF isVideo(clip) THEN [element |-> "video", src |-> <<clip>>]
        ELSE [element |-> "img", src |-> <<clip>>]

\* the poster maps: the posters known for some of the ids
PosterMaps(ids) == {[id \in S |-> <<"poster", id>>] : S \in SUBSET ids}

(***************************************************************************)
(* My List tray (App: myListShows; MyListTray)                             *)
(***************************************************************************)
\* the catalogs fetchShows resolves to without OMDb details: the ids are
\* those of ToShow
TrayCatalogs ==
    {[k \in DOMAIN c |-> ToShow(c[k], k - 1)] :
        c \in {x \in SeedCatalogs : \A k \in DOMAIN x : x[k].releaseYear = NoNumber}}

\* the positions of the catalog shows with the id that is the number x
PositionsOf(catalog, x) == {k \in DOMAIN catalog : N(catalog[k].id) = x}

\* showById.get(x) of new Map(shows.map((show) => [show.id, show])): the
\* last show with that id
showById(catalog, x) ==
    LET at == PositionsOf(catalog, x)
    IN  catalog[CHOOSE k \in at : \A j \in at : j <= k]

\* the myListShows memo: myListIds.map((id) => showById.get(id)).filter(Boolean)
myListShows(t) ==
    LET ids == SelectSeqBy(myListIds[t], {x \in Range(myListIds[t]) : PositionsOf(shows, x) # {}})
    IN  [k \in DOMAIN ids |-> showById(shows, ids[k])]

\* the "N titles" label of MyListTray: rendered only for a non-empty tray
TitlesCount(t) == IF Len(myListShows(t)) > 0 THEN Len(myListShows(t)) ELSE NoNumber

TrayNext ==
    \/ MyListNext
    \/ \E c \in TrayCatalogs : FetchSuccess(c)
    \/ BackgroundRefetch

(***************************************************************************)
(* Specifications                                                          *)
(***************************************************************************)
InitBatch == BatchInit /\ ListIdle /\ CatalogIdle /\ ChatIdle /\ HeroIdle /\ FetchIdle /\ RuntimeIdle /\ PlayerIdle

SpecBatch == InitBatch /\ [][BatchNext]_vars

InitMyList == BatchInit /\ ListInit /\ CatalogIdle /\ ChatIdle /\ HeroIdle /\ FetchIdle /\ RuntimeIdle /\ PlayerIdle

SpecMyList == InitMyList /\ [][MyListNext]_vars

SpecTabs == InitMyList /\ [][TabsNext]_vars

InitCatalog == BatchInit /\ ListIdle /\ CatalogInit /\ ChatIdle /\ HeroIdle /\ FetchIdle /\ RuntimeIdle /\ PlayerIdle

SpecCatalog == InitCatalog /\ [][CatalogNext]_vars

InitRanking == BatchInit /\ ListIdle /\ CatalogInit /\ ChatIdle /\ HeroIdle /\ FetchIdle /\ RuntimeIdle /\ PlayerIdle

SpecRanking == InitRanking /\ [][RankingNext]_vars

InitChat == BatchInit /\ ListIdle /\ CatalogIdle /\ ChatInit /\ HeroIdle /\ FetchIdle /\ RuntimeIdle /\ PlayerIdle

SpecChat == InitChat /\ [][ChatNext]_vars

\* every request is answered or fails in the end
SpecChatFair == InitChat /\ [][ChatNext]_vars /\ WF_vars(Answer)

InitHero == BatchInit /\ ListIdle /\ CatalogIdle /\ ChatIdle /\ HeroInit /\ FetchIdle /\ RuntimeIdle /\ PlayerIdle

\* setInterval keeps ticking, the browser keeps running animation frames,
\* and the clips load
TimerFairness == WF_vars(Tick) /\ WF_vars(AnimationFrame) /\ WF_vars(MediaLoaded)

SpecTimer == InitHero /\ [][TimerNext]_vars /\ TimerFairness

SpecHero == InitHero /\ [][HeroNext]_vars

SpecHeroFair == InitHero /\ [][HeroNext]_vars /\ TimerFairness

InitFetch == BatchInit /\ ListIdle /\ CatalogIdle /\ ChatIdle /\ HeroIdle /\ FetchInit /\ RuntimeIdle /\ PlayerIdle

SpecFetch == InitFetch /\ [][FetchNext]_vars

InitRuntime == BatchInit /\ ListIdle /\ CatalogIdle /\ ChatIdle /\ HeroIdle /\ FetchIdle /\ RuntimeInit /\ PlayerIdle

SpecRuntime == InitRuntime /\ [][RuntimeNext]_vars

InitTray == BatchInit /\ ListInit /\ CatalogInit /\ ChatIdle /\ HeroIdle /\ FetchIdle /\ RuntimeIdle /\ PlayerIdle

SpecTray == InitTray /\ [][TrayNext]_vars

InitPlayer == BatchInit /\ ListIdle /\ CatalogIdle /\ ChatIdle /\ HeroIdle /\ FetchIdle /\ RuntimeIdle /\ PlayerIdle

SpecPlayer == InitPlayer /\ [][PlayerNext]_vars

(***************************************************************************)
(* Claims                                                                  *)
(***************************************************************************)
AllSettled == \A i \in DOMAIN requests : requests[i] # "pending"

\* C1 (as stated; refuted by the code): fetchHeroClips with a non-blank key
\* never rejects, resolves once every request has completed, and then
\* returns the clip of every show whose own lookup produced one, whatever
\* the other lookups did.
C1_HeroClipsNeverAbort ==
    (api = "giphy" /\ Trim(apiKey) # "") =>
        /\ batchStatus # "rejected"
        /\ AllSettled =>
              /\ batchStatus = "resolved"
              /\ \A i \in DOMAIN requests :
                    requests[i] \in {"one", "two", "second"} => batchShows[i] \in DOMAIN results

C3_StoredIsCurrentList ==
    (phase[1] = "mounted" /\ ~pending[1]) =>
        /\ storage = Item(JSONstringify(myListIds[1]))
        /\ readStoredMyList(storage) = myListIds[1]

\* the list holds a show id that only a toggle can have put there, next to
\* another id, and the effect has run
C3_Witness ==
    /\ phase[1] = "mounted"
    /\ ~pending[1]
    /\ N(3) \in Range(myListIds[1])
    /\ Len(myListIds[1]) >= 2
    /\ readStoredMyList(storage) = myListIds[1]

\* C4 (as stated; refuted by the code): the favourites list of every app
\* instance, which is what readStoredMyList returned for the stored value
\* plus the toggled show ids, holds only integers.
C4_OnlyIntegers ==
    \A t \in Tabs : \A k \in DOMAIN myListIds[t] : IsInteger(myListIds[t][k])

\* C5: with two app instances on one storage, once the instance that wrote
\* last has run its persistence effect, the stored array is that instance's
\* list and a reload reads exactly that list; nothing of the other
\* instance's list is merged in.
C5_LastWriteWins ==
    \A t \in Tabs :
        (lastWriter = t /\ phase[t] = "mounted" /\ ~pending[t]) =>
            /\ storage = Item(JSONstringify(myListIds[t]))
            /\ readStoredMyList(storage) = myListIds[t]

\* instance 1 wrote last; instance 2 holds an id toggled only there, which
\* is neither in instance 1's list nor in the storage
C5_Witness ==
    /\ lastWriter = 1
    /\ phase[1] = "mounted" /\ phase[2] = "mounted"
    /\ ~pending[1] /\ ~pending[2]
    /\ N(3) \in Range(myListIds[2])
    /\ N(3) \notin Range(myListIds[1])
    /\ N(1) \in Range(myListIds[1])
    /\ N(3) \notin Range(readStoredMyList(storage))

\* C6: the hero area shows the skeleton while the query is loading, else the
\* error panel when the query has an error, else the carousel when there is
\* a hero show, else the empty-state message; in the error state no content
\* row is rendered, "Try again" is available and starts a refetch; a loaded
\* catalog without entries gives the empty-state message, never the carousel.
C6_HeroSectionStates ==
    /\ [](/\ isLoading => heroSection = "HeroSkeleton"
          /\ (~isLoading /\ qError) => (heroSection = "ErrorState" /\ contentRows = "none")
          /\ (~isLoading /\ ~qError /\ Len(heroShows) > 0) => heroSection = "HeroCarousel"
          /\ (~isLoading /\ ~qError /\ shows = <<>>) => heroSection = "EmptyState"
          /\ (~isLoading /\ ~qError /\ shows # <<>>) => heroSection = "HeroCarousel"
          /\ (heroSection = "ErrorState" /\ ~qFetching) => ENABLED TryAgain)
    /\ [][(heroSection = "ErrorState" /\ ~qFetching) => qFetching']_vars

\* a background refetch failed: the error panel replaces the carousel of a
\* catalog that has hero shows, and the rows are gone
C6_Witness ==
    /\ heroSection = "ErrorState"
    /\ contentRows = "none"
    /\ Len(heroShows) > 0
    /\ ~qFetching

\* C7 (as stated; refuted by the code): after a JSON reply without output,
\* output_text and choices, the assistant message appended is the static
\* text "I couldn't generate a recommendation right now."
C7_NoTextGivesFallback ==
    lastOutcome = "noText" =>
        messages[Len(messages)] = Message("assistant", NoRecommendationText, 0)

\* C8: when the request rejects or the body is not JSON, handleSend appends
\* exactly one message, the assistant's "Sorry, I couldn't reach the AI
\* service. Try again later.", keeps the transcript before it (the user's
\* message included) and sets isSending to false.
C8_FailureGivesSorry ==
    [][(inFlight' = inFlight - 1 /\ lastOutcome' \in {"reject", "notJson"}) =>
          /\ messages' = Append(messages, UnreachableMessage)
          /\ \E k \in DOMAIN messages : messages[k].role = "user"
          /\ isSending' = FALSE]_vars

\* the transcript ends with the user's message followed by the sorry
\* message of a failed request
C8_Witness ==
    /\ lastOutcome \in {"reject", "notJson"}
    /\ Len(messages) >= 3
    /\ messages[Len(messages)] = UnreachableMessage
    /\ messages[Len(messages) - 1].role = "user"
    /\ ~isSending
    /\ inFlight = 0

\* C9 (as stated; refuted by the code): whenever the carousel is rendered
\* with its content hidden (after the mount and after every slide change),
\* the content eventually becomes visible again.
C9_ContentBecomesVisible ==
    (carouselShows # <<>> /\ ~isAnimating) ~> isAnimating

\* C10: left to itself, the carousel changes its index only when it has
\* more than one show, and then from current to (current + 1) mod n; with
\* more than one show every index is current again and again.
C10_TimerRotates ==
    /\ [][current' # current =>
             /\ Len(carouselShows) > 1
             /\ current' = (current + 1) % Len(carouselShows)]_vars
    /\ \A i \in 0..(MaxHero - 1) :
          []<>((Len(carouselShows) > 1 /\ i < Len(carouselShows)) => current = i)

\* the timer has moved a carousel of at least three shows to its last show
C10_Witness ==
    /\ Len(carouselShows) >= 3
    /\ current = Len(carouselShows) - 1
    /\ rafQueue = <<>>

\* C11 (as stated; refuted by the code): fetchShows never rejects, and what
\* it resolves to has one show per seed, in seed order, with the seed's id or
\* index + 1; a show whose lookup failed or returned nothing, and every show
\* when the OMDb key is blank, has all of its seed's properties unchanged.
C11_FetchShowsKeepsSeeds ==
    /\ fsStatus # "rejected"
    /\ fsStatus = "resolved" =>
          /\ Len(fsShows) = Len(seeds)
          /\ \A k \in DOMAIN seeds :
                /\ fsShows[k].title = seeds[k].title
                /\ fsShows[k].id = (IF seeds[k].id # NoNumber THEN seeds[k].id ELSE k)
                /\ (Trim(omdbKey) = "" \/ requests[k] # "True") =>
                      \A f \in SeedFields \ {"id"} : fsShows[k][f] = seeds[k][f]

\* C12: topRated holds only series that have a ratingMap entry, at most 10
\* of them, none twice, in non-increasing order of their average; every
\* rated series of the catalog that is left out has an average no greater
\* than that of every series in topRated.
C12_TopRated ==
    LET top == topRated
        map == ratingMap
    IN  /\ \A k \in DOMAIN top :
              /\ top[k] \in Range(shows)
              /\ top[k].type = "series"
              /\ top[k].id \in DOMAIN map
        /\ Len(top) <= 10
        /\ NoDup(top)
        /\ \A j, k \in DOMAIN top : j < k => map[top[j].id].avg >= map[top[k].id].avg
        /\ \A i \in DOMAIN shows :
              (/\ shows[i].type = "series"
               /\ shows[i].id \in DOMAIN map
               /\ shows[i] \notin Range(top)) =>
                  \A k \in DOMAIN top : map[shows[i].id].avg <= map[top[k].id].avg

\* a catalog with more than 10 rated series, a rated movie and an unrated
\* series: topRated is full, holds different averages, and a rated series
\* that comes early in the catalog is left out
C12_Witness ==
    LET top == topRated
        map == ratingMap
    IN  /\ Len(top) = 10
        /\ \E i \in DOMAIN shows : shows[i].type = "movie" /\ shows[i].id \in DOMAIN map
        /\ \E i \in DOMAIN shows : shows[i].type = "series" /\ shows[i].id \notin DOMAIN map
        /\ map[top[1].id].avg > map[top[10].id].avg
        /\ \E i \in 1..10 :
              /\ shows[i].type = "series"
              /\ shows[i].id \in DOMAIN map
              /\ shows[i] \notin Range(top)

\* C13: trendingNow has at most 12 shows; when the catalog has a trending
\* show it holds only trending shows of the catalog, in non-increasing
\* popularityScore with a missing score counted as 0; when no show is
\* trending it is the first 12 shows of the catalog in catalog order.
C13_TrendingNow ==
    LET now == trendingNow
        Score(show) == IF show.popularityScore = NoNumber THEN 0 ELSE show.popularityScore
    IN  /\ Len(now) <= 12
        /\ (\E i \in DOMAIN shows : shows[i].trending) =>
              /\ \A k \in DOMAIN now : now[k] \in Range(shows) /\ now[k].trending
              /\ \A j, k \in DOMAIN now : j < k => Score(now[j]) >= Score(now[k])
        /\ (\A i \in DOMAIN shows : ~shows[i].trending) =>
              /\ Len(now) = (IF Len(shows) < 12 THEN Len(shows) ELSE 12)
              /\ \A k \in DOMAIN now : now[k] = shows[k]

\* a catalog with more than 12 trending shows, some without a score, and
\* with shows that are not trending: the row is full and its scores differ
C13_Witness ==
    LET now == trendingNow
    IN  /\ Len(now) = 12
        /\ Cardinality({i \in DOMAIN shows : shows[i].trending}) > 12
        /\ \E i \in DOMAIN shows : ~shows[i].trending
        /\ \E i \in DOMAIN shows : shows[i].trending /\ shows[i].popularityScore = NoNumber
        /\ now[1].popularityScore > now[12].popularityScore
        /\ now[1] # shows[1]

\* C14: heroShows has at most 5 shows; when the catalog has a spotlight show
\* it holds only spotlight shows of the catalog, in non-decreasing
\* heroPriority, those without a heroPriority after all those with one; when
\* no show is in the spotlight it is the first 5 shows of the catalog in
\* catalog order; it is empty only when the catalog is empty.
C14_HeroShows ==
    LET hero == heroShows
        Has(show) == show.heroPriority # NoPriority
    IN  /\ Len(hero) <= 5
        /\ (\E i \in DOMAIN shows : shows[i].spotlight) =>
              /\ \A k \in DOMAIN hero : hero[k] \in Range(shows) /\ hero[k].spotlight
              /\ \A j, k \in DOMAIN hero :
                    j < k =>
                       /\ (Has(hero[j]) /\ Has(hero[k])) => hero[j].heroPriority <= hero[k].heroPriority
                       /\ Has(hero[k]) => Has(hero[j])
        /\ (\A i \in DOMAIN shows : ~shows[i].spotlight) =>
              /\ Len(hero) = (IF Len(shows) < 5 THEN Len(shows) ELSE 5)
              /\ \A k \in DOMAIN hero : hero[k] = shows[k]
        /\ hero = <<>> => shows = <<>>

\* a catalog with more than 5 spotlight shows and a show outside the
\* spotlight: heroShows is full, its priorities differ, its last show has no
\* heroPriority, and the first show of the catalog is not its first
C14_Witness ==
    LET hero == heroShows
    IN  /\ Len(hero) = 5
        /\ Cardinality({i \in DOMAIN shows : shows[i].spotlight}) > 5
        /\ \E i \in DOMAIN shows : ~shows[i].spotlight
        /\ hero[1].heroPriority # NoPriority
        /\ hero[1].heroPriority < hero[4].heroPriority
        /\ hero[5].heroPriority = NoPriority
        /\ hero[1] # shows[1]

\* C15: a call of fetchOmdbDetails or fetchHeroClips with a non-blank key
\* and a non-empty list has issued exactly one HTTP request for every show
\* of the list by the time it first waits, and issues no request after
\* that, whatever the requests do; with a blank key or an empty list it
\* issues no request and has resolved to the empty map.
C15_OneRequestPerShow ==
    /\ [](api # "none" =>
            /\ DOMAIN sent = DOMAIN batchShows
            /\ (Trim(apiKey) # "" /\ batchShows # <<>>) => \A i \in DOMAIN sent : sent[i] = 1
            /\ (Trim(apiKey) = "" \/ batchShows = <<>>) =>
                  /\ \A i \in DOMAIN sent : sent[i] = 0
                  /\ batchStatus = "resolved"
                  /\ results = EmptyMap)
    /\ [][api # "none" => sent' = sent]_vars

\* every request of a call for three shows has completed, two of them
\* have failed, and each show has had its one request
C15_Witness ==
    /\ api # "none"
    /\ Trim(apiKey) # ""
    /\ Len(batchShows) = 3
    /\ AllSettled
    /\ \E i, j \in DOMAIN requests : i # j /\ Failed(requests[i]) /\ Failed(requests[j])
    /\ \A i \in DOMAIN sent : sent[i] = 1

\* C16 (as stated; refuted by the code): parseRuntime returns h * 60 + m for
\* a runtime written as hours and minutes, "h h m min", and m for a runtime
\* written as minutes only, "m min".
C16_RuntimeInMinutes ==
    rtParsed.done =>
        \A h, m \in {1, 58} :
            /\ rtValue = <<Digits(h), Space, Word("h"), Space, Digits(m), Space, Word("min")>> =>
                  rtParsed.minutes = h * 60 + m
            /\ rtValue = <<Digits(m), Space, Word("min")>> => rtParsed.minutes = m

\* C17 (as stated; refuted by the code): whenever the carousel has a
\* non-empty list of shows, current is an index of that list,
\* 0 <= current < shows.length, under every interleaving of ticks, arrow and
\* dot clicks, animation frames and changes of the list.
C17_CurrentIsValid ==
    carouselShows # <<>> => (0 <= current /\ current < Len(carouselShows))

\* C18 (as stated; refuted by the code): whenever current changes for the
\* same list of shows (timer tick, arrow, dot click), isAnimating is false
\* before and after the change; and isAnimating becomes true only in the
\* animation frame requested by a load / can-play event.
C18_HiddenWhileSwitching ==
    /\ [][(current' # current /\ carouselShows' = carouselShows) =>
             (~isAnimating /\ ~isAnimating')]_vars
    /\ [][(~isAnimating /\ isAnimating') =>
             (rafQueue # <<>> /\ Head(rafQueue) = AnimateCallback)]_vars

\* C19 (as stated; refuted by the code): at most one AI request is in
\* flight at any time, and isSending is true exactly while one is.
C19_OneRequestInFlight ==
    /\ inFlight <= 1
    /\ isSending <=> inFlight > 0

\* the messages of the transcript with the given role
WithRole(role) == {k \in DOMAIN messages : messages[k].role = role}

\* C20: the transcript starts with the greeting and only grows at its end;
\* a request starts only with non-blank input and a key, and the step that
\* starts it appends one user message with the trimmed input and clears the
\* input; with blank input or without a key no step starts a request or
\* appends a user message; every request that ends appends exactly one
\* assistant message, so that the transcript has one reply for every user
\* message whose request has ended; and every request ends with its reply.
C20_Transcript ==
    /\ [](messages[1] = Message("assistant", Greeting, 0))
    /\ [][/\ Len(messages') >= Len(messages)
          /\ SubSeq(messages', 1, Len(messages)) = messages]_vars
    /\ [][inFlight' > inFlight =>
             /\ TrimText(input) # "" /\ openAiKey # ""
             /\ inFlight' = inFlight + 1
             /\ messages' = Append(messages, Message("user", TrimText(input), 0))
             /\ input' = ""]_vars
    /\ [][(TrimText(input) = "" \/ openAiKey = "") =>
             /\ inFlight' <= inFlight
             /\ messages' # messages => inFlight' < inFlight]_vars
    /\ [][inFlight' < inFlight =>
             /\ inFlight' = inFlight - 1
             /\ Len(messages') = Len(messages) + 1
             /\ messages'[Len(messages')].role = "assistant"]_vars
    /\ [][inFlight' = inFlight => Cardinality(WithRole("user"))' = Cardinality(WithRole("user"))]_vars
    /\ [](Cardinality(WithRole("user")) = Cardinality(WithRole("assistant")) - 1 + inFlight)
    /\ (inFlight > 0) ~> (inFlight = 0)

\* two sends were accepted while the first request was pending, both
\* requests have ended, one with recommendations and one without, and the
\* transcript holds the two user messages followed by the two replies
C20_Witness ==
    /\ Len(messages) = 5
    /\ inFlight = 0
    /\ messages[2].role = "user" /\ messages[3].role = "user"
    /\ messages[2].content = "funny"
    /\ messages[4].role = "assistant" /\ messages[5].role = "assistant"
    /\ messages[4].recommendations > 0
    /\ messages[5].recommendations = 0

(***************************************************************************)
(* C21: a player launched for a show stays open until Back is pressed for  *)
(* it: whenever an open player is closed, the close timer that fired was   *)
(* started by a Back press on this player, never by a press made before    *)
(* this player was launched.                                               *)
(***************************************************************************)
C21_ClosedByOwnBack ==
    [][(playerShow # NoShow /\ playerShow' = NoShow)
         => (closeTimers # <<>> /\ Head(closeTimers) = launches)]_vars

(***************************************************************************)
(* C22: whenever the overlay displays a video, the play / pause indicator  *)
(* isPlaying is true exactly when the video is playing (not paused).       *)
(***************************************************************************)
C22_IndicatorAgrees ==
    VideoMounted => (isPlaying <=> ~videoPaused)

(***************************************************************************)
(* C23: myListIds never contains the same id twice, whatever array was     *)
(* found in storage at startup and after any sequence of toggleMyList      *)
(* calls.                                                                  *)
(***************************************************************************)
C23_NoDuplicates ==
    \A t \in Tabs : NoDup(myListIds[t])

\* neither the stored array (as readStoredMyList reads it) nor the state of
\* an app instance holds an id twice
DuplicateFree(item, lists) ==
    /\ NoDup(readStoredMyList(item))
    /\ \A t \in Tabs : NoDup(lists[t])

(***************************************************************************)
(* C23 as amended: myListIds never contains the same id twice provided     *)
(* the array found in storage at startup holds no number twice: once the   *)
(* stored array and myListIds are free of duplicates they stay so after    *)
(* every load, toggleMyList call and write.                                *)
(***************************************************************************)
C23_NoNewDuplicates ==
    [][DuplicateFree(storage, myListIds) => DuplicateFree(storage', myListIds')]_vars

\* an id that no stored array holds was toggled on after another one, and
\* the list was written
C23_Witness ==
    /\ DuplicateFree(storage, myListIds)
    /\ phase[1] = "mounted"
    /\ ~pending[1]
    /\ Len(myListIds[1]) = 2
    /\ myListIds[1][2] = N(MaxShows)
    /\ readStoredMyList(storage) = myListIds[1]
    /\ lastWriter = 1

\* the entries of a list other than id, in order
Others(list, id) == SelectSeqBy(list, Range(list) \ {id})

\* `after` is `before` with the membership of id flipped and nothing else changed
Flipped(before, after, id) ==
    /\ (id \in Range(after)) # (id \in Range(before))
    /\ id \notin Range(before) =>
          /\ Len(after) = Len(before) + 1
          /\ after[Len(after)] = id
    /\ Others(after, id) = Others(before, id)

(***************************************************************************)
(* C24: toggleMyList(id) flips the membership of id and of no other id: an *)
(* absent id is appended at the end, a present id is removed, the other    *)
(* ids keep their relative order; isInMyList(id) is true exactly when id   *)
(* is in myListIds; toggling the same id twice leaves the set of ids       *)
(* unchanged.                                                              *)
(***************************************************************************)
C24_ToggleFlipsOne ==
    /\ [](\A t \in Tabs, id \in ShowIds :
            /\ isInMyList(t, id) <=> id \in Range(myListIds[t])
            /\ Range(Toggled(Toggled(myListIds[t], id), id)) = Range(myListIds[t]))
    /\ [][\A t \in Tabs :
            (phase[t] = "mounted" /\ phase'[t] = "mounted" /\ myListIds'[t] # myListIds[t])
              => \E id \in ShowIds : Flipped(myListIds[t], myListIds'[t], id)]_vars

\* the list [first id, last id] was written, then the first id was toggled off
C24_Witness ==
    /\ phase[1] = "mounted"
    /\ pending[1]
    /\ readStoredMyList(storage) = <<N(1), N(MaxShows)>>
    /\ myListIds[1] = <<N(MaxShows)>>

(***************************************************************************)
(* C25: for a show with an OMDb details entry fetchShows keeps the seed's  *)
(* releaseYear when the seed has one (the OMDb year only fills a missing   *)
(* one), takes maturityRating, runtimeMinutes, synopsis, poster,           *)
(* imdbRating, imdbVotes and type from OMDb when OMDb supplies them and    *)
(* from the seed otherwise, takes genres from OMDb only when that list is  *)
(* non-empty, and leaves id, title and every other seed field unchanged.   *)
(***************************************************************************)
C25_MergeRules ==
    (fsStatus = "resolved" /\ api = "omdb") =>
        \A k \in DOMAIN fsShows :
            LET seed == seeds[k]
                show == fsShows[k]
            IN  show.id \in DOMAIN results =>
                  LET omdb == results[show.id]
                  IN  /\ show.releaseYear =
                           IF seed.releaseYear # NoNumber THEN seed.releaseYear ELSE omdb.year
                      /\ show.maturityRating =
                           IF omdb.rated # Undefined THEN omdb.rated ELSE seed.maturityRating
                      /\ show.runtimeMinutes =
                           IF omdb.runtimeMinutes # NoNumber THEN omdb.runtimeMinutes
                           ELSE seed.runtimeMinutes
                      /\ show.synopsis =
                           IF omdb.plot # Undefined THEN omdb.plot ELSE seed.synopsis
                      /\ show.poster = omdb.poster
                      /\ show.imdbRating = omdb.imdbRating
                      /\ show.imdbVotes = omdb.imdbVotes
                      /\ show.type =
                           IF omdb.type # Undefined THEN omdb.type ELSE seed.type
                      /\ show.genres =
                           IF omdb.genres \notin {NoGenres, <<>>} THEN omdb.genres ELSE NoGenres
                      /\ show.id = fsCatalog[k].id
                      /\ show.title = seed.title
                      /\ show.collections = seed.collections

\* a seed with a release year and a seed without one were both merged with
\* a complete OMDb body
C25_Witness ==
    /\ fsStatus = "resolved"
    /\ Len(fsShows) = 2
    /\ fsShows[1].id # fsShows[2].id
    /\ \A k \in 1..2 : fsShows[k].id \in DOMAIN results /\ results[fsShows[k].id] = Details(FullBody)
    /\ seeds[1].releaseYear = 2019 /\ fsShows[1].releaseYear = 2019
    /\ seeds[2].releaseYear = NoNumber /\ fsShows[2].releaseYear = 2016
    /\ fsShows[1].synopsis = "omdb plot"

\* the lookup of position i has produced no usable URL
NoUsableUrl(i) == requests[i] \in {"notOk", "False"}

(***************************************************************************)
(* C26: every entry of the map fetchHeroClips returns has a non-null       *)
(* primary or secondary clip, so a show whose lookup produced no usable    *)
(* URL has no entry; for such a show the hero carousel displays static     *)
(* artwork (the poster when one is known, else the generated placeholder   *)
(* URL) and Play launches the player with a null clip.                     *)
(***************************************************************************)
C26_NoClipGivesArtwork ==
    (api = "giphy" /\ batchStatus = "resolved") =>
        /\ \A id \in DOMAIN results :
              ClipPair(results[id]).primary # "none" \/ ClipPair(results[id]).secondary # "none"
        /\ \A i \in DOMAIN batchShows :
              NoUsableUrl(i) =>
                LET show == [id |-> batchShows[i], title |-> i]
                IN  /\ show.id \notin DOMAIN results
                    /\ \A posters \in PosterMaps(Range(batchShows)) :
                          HeroMedia(show, results, posters) =
                            [element |-> "img",
                             src |-> IF show.id \in DOMAIN posters THEN <<"poster", show.id>>
                                     ELSE <<"https://picsum.photos/seed", show.title, "1600/900">>]
                    /\ PlayClip(heroClipData(results, show.id)) = "none"

\* the catalog shows whose id is in the myListIds of instance t
ListedShows(t) == {shows[k] : k \in {j \in DOMAIN shows : N(shows[j].id) \in Range(myListIds[t])}}

(***************************************************************************)
(* C27: the My List tray shows exactly the catalog shows whose id is in    *)
(* myListIds, in myListIds order, and its "N titles" count is the number   *)
(* of shows in the tray; ids of myListIds that match no catalog show are   *)
(* not displayed but stay in myListIds and in storage.                     *)
(***************************************************************************)
C27_TrayShowsListed ==
    /\ [](LET tray == myListShows(1)
          IN  /\ Range(tray) = ListedShows(1)
              /\ [k \in DOMAIN tray |-> N(tray[k].id)] =
                    SelectSeqBy(myListIds[1], {N(shows[j].id) : j \in DOMAIN shows})
              /\ Len(tray) > 0 => TitlesCount(1) = Len(tray)
              /\ (phase[1] = "mounted" /\ ~pending[1]) =>
                    readStoredMyList(storage) = myListIds[1])
    /\ [][shows' # shows => (myListIds' = myListIds /\ storage' = storage)]_vars

(***************************************************************************)
(* C28: a show has a ratingMap entry exactly when its 10-point rating      *)
(* (imdbRating when it is a number, else popularityScore * 10) is greater  *)
(* than 0; every entry has 0 <= avg <= 5, avg being half the 10-point      *)
(* rating rounded to one decimal and clamped to that range, and            *)
(* count >= 1. (Ratings are in tenths: 50 is 5.0, and half of an odd       *)
(* number of tenths rounds to one of its two neighbours.)                  *)
(***************************************************************************)
C28_RatingEntries ==
    LET map == ratingMap
    IN  \A i \in DOMAIN shows :
            LET show == shows[i]
                rating == IF show.imdbRating # NoNumber THEN show.imdbRating
                          ELSE show.popularityScore
            IN  /\ show.id \in DOMAIN map <=> rating > 0
                /\ show.id \in DOMAIN map =>
                      LET entry == map[show.id]
                      IN  /\ 0 <= entry.avg /\ entry.avg <= 50
                          /\ rating <= 100 => 2 * entry.avg \in {rating - 1, rating, rating + 1}
                          /\ rating > 100 => entry.avg = 50
                          /\ entry.count >= 1

(***************************************************************************)
(* C29: the shows fetchShows returns have pairwise distinct ids whenever   *)
(* the ids given explicitly in the seed catalog are pairwise distinct      *)
(* (seeds without an id receive index + 1), so no two shows share an entry *)
(* in the maps keyed by id.                                                *)
(***************************************************************************)
C29_DistinctIds ==
    (/\ fsStatus = "resolved"
     /\ \A j, k \in DOMAIN seeds :
           (seeds[j].id # NoNumber /\ seeds[j].id = seeds[k].id) => j = k)
        => NoDup([k \in DOMAIN fsShows |-> fsShows[k].id])

\* the positions whose callback stored an entry
Stored == {i \in DOMAIN requests : requests[i] # "pending" /\ Task(api, requests[i]).store}

(***************************************************************************)
(* C30: the map fetchOmdbDetails and fetchHeroClips return does not depend *)
(* on the order in which the per-show responses complete: for a list of    *)
(* shows with pairwise distinct ids the map is determined by what each     *)
(* response was, so every completion order yields the same map.            *)
(***************************************************************************)
C30_OrderIndependent ==
    (api # "none" /\ batchStatus = "resolved" /\ NoDup(batchShows)) =>
        /\ DOMAIN results = {batchShows[i] : i \in Stored}
        /\ \A i \in Stored : results[batchShows[i]] = Task(api, requests[i]).value

\* a resolved clip batch for three different shows: two lookups stored
\* different pairs and one stored nothing
C30_Witness ==
    /\ api = "giphy"
    /\ batchStatus = "resolved"
    /\ Len(batchShows) = 3
    /\ NoDup(batchShows)
    /\ \E i, j, k \in DOMAIN requests :
          requests[i] = "two" /\ requests[j] = "second" /\ requests[k] = "notOk"
    /\ Cardinality(DOMAIN results) = 2

====
